---- MODULE Spec2Model ----
(***************************************************************************)
(* Renderer lifecycle, script loading and drawing of                        *)
(* LibassModSubtitlesProvider (src/src/subtitles_provider_libassmod.cpp,    *)
(* lines 669-964; LibassSubtitlesProvider in subtitles_provider_libass.cpp  *)
(* has the same lifecycle).                                                 *)
(*                                                                         *)
(* Calling discipline (spec section 5): the facade operations               *)
(* LoadSubtitles, PrepareSubtitles, DrawSubtitles, Reinitialize and the     *)
(* destructor are called by the primary thread, one at a time; any other    *)
(* thread may enter renderer() ("Acquire") at any time except while         *)
(* Reinitialize or the destructor runs, which write shared->renderer        *)
(* without synchronisation.                                                 *)
(***************************************************************************)
EXTENDS Integers, Sequences, FiniteSets, TLC

\* ---------------------------------------------------------------- bounds
NumThreads == 2
MaxRenderers == 2
NumScripts == 2

\* ------------------------------------------------------------- constants
MainThread == 1
NoThread == 0
NullRenderer == 0
NullTrack == 0

Threads == 1..NumThreads
RendererIds == 1..MaxRenderers
Scripts == 1..NumScripts
FrameDims == {<<1, 2>>, <<2, 1>>}
NoDims == <<0, 0>>

\* Referenced image paths (already stripped, with a recognised extension)
\* and script directories (NoDir is the empty wxString).
Paths == {1, 2}
\* A referenced path whose extension is not recognised.
OtherPaths == {3}
AbsolutePaths == {2}
NoDir == 0
Dirs == {0, 1}
NoImage == [key |-> <<"none">>, src |-> "none", format |-> "none"]

VARIABLES
    renderer,          \* cache_thread_shared::renderer
    ready,             \* cache_thread_shared::ready
    wpc,               \* position of the warm-up task queued by the constructor
    wlocal,            \* the task's local ass_renderer
    alive,             \* the provider object exists (it holds one reference to shared)
    created,           \* number of renderers ass_renderer_init has returned
    released,          \* per renderer: number of ass_renderer_done calls on it
    crashed,           \* the process died on a null renderer dereference
    tagApi,            \* api.ass_clear_tag_images and api.ass_set_tag_image_rgba were found
    engRejects,        \* the (key, quoted) registrations ass_set_tag_image_rgba refuses
    csriTags,          \* the tag images registered on CSRISubtitlesProvider's instance
    libassTags,        \* the tag images LibassSubtitlesProvider registered on its renderer
    callee,            \* the helper function that ran last ("none" before any ran)
    written,           \* the tags or lines the script was written from
    data,              \* the bytes handed to collect_img_paths
    collected,         \* the vector collect_img_paths returned
    quotedPath,        \* strip_matching_quotes' argument, then its return value
    frame_px,          \* one pixel of the frame, as (B, G, R, A)
    frame_before,      \* that pixel before the last tile was blended onto it
    src_px,            \* the tile's pixel over it: (R, G, B, A), or the one mask byte
    color,             \* ASS_Image::color of a mask tile
    ass_track,         \* the loaded track (the script it was read from)
    tag_image_paths,   \* paths extracted from the last successfully loaded script
    tag_images_dirty,
    tag_image_script_dir,
    attachment_tag_images,
    file_tag_image_cache,
    fs,                \* the locations on disk that hold a decodable image
    fsTouched,         \* paths the last registration pass looked up on disk
    memoUsed,          \* paths the last registration pass served from file_tag_image_cache
    engPass,           \* per renderer: a clear-and-register pass ran on it
    engTags,           \* per renderer: the tag images registered on it
    pc,                \* per thread: position inside the running call
    ret,               \* per thread: who called renderer()
    res,               \* per thread: value returned by the last renderer() call
    local,             \* per thread: DrawSubtitles' local ass_renderer
    frame,             \* per thread: dimensions of the frame being drawn
    rr,                \* per thread: render_result of the running draw
    drawLog,           \* per thread: engine calls made by the running (or last) draw
    mainBusy,          \* thread whose block() occupies the primary thread
    call,              \* per thread: history of the current (or last) renderer() call
    conc               \* per thread: threads whose pre-ready renderer() call overlapped this one

textVars   == <<written, data, collected, quotedPath>>
blendVars  == <<frame_px, frame_before, src_px, color>>
helperVars == <<callee, textVars, blendVars>>
sharedVars == <<renderer, ready>>
workerVars == <<wpc, wlocal>>
lifeVars   == <<alive, created, released, crashed, tagApi, engRejects, csriTags, libassTags, helperVars>>
provVars   == <<ass_track, tag_image_paths, tag_images_dirty>>
cacheVars  == <<tag_image_script_dir, attachment_tag_images, file_tag_image_cache,
               fs, fsTouched, memoUsed>>
engVars    == <<engPass, engTags>>
thrVars    == <<pc, ret, res, local, frame, rr, drawLog>>
histVars   == <<call, conc>>

providerVars == <<sharedVars, workerVars, alive, created, released, crashed, tagApi,
                  engRejects, csriTags, libassTags, provVars, cacheVars, engVars, thrVars, mainBusy,
                  histVars>>

vars == <<renderer, ready, wpc, wlocal, alive, created, released, crashed, tagApi, engRejects,
          csriTags, libassTags, helperVars, ass_track, tag_image_paths, tag_images_dirty, tag_image_script_dir,
          attachment_tag_images, file_tag_image_cache, fs, fsTouched, memoUsed,
          engPass, engTags,
          pc, ret, res, local, frame, rr, drawLog, mainBusy, call, conc>>

\* No helper function is being exercised on its own.
BlendIdle ==
    /\ frame_px = <<>>
    /\ frame_before = <<>>
    /\ src_px = <<>>
    /\ color = 0

HelpersIdle ==
    /\ callee = "none"
    /\ written = <<>>
    /\ data = <<>>
    /\ collected = <<>>
    /\ quotedPath = <<>>
    /\ BlendIdle

\* ------------------------------------------------------------- helpers
AcqPcs    == {"r_dispatch", "b_check1", "b_sleep", "b_check2", "b_run", "r_ret"}
BlockPcs  == {"b_check1", "b_sleep", "b_check2", "b_run"}
DrawPcs   == {"d_check", "d_register", "g_pass", "d_frame", "d_storage", "d_render",
              "d_composite", "d_free", "d_return"}
ReinitPcs == {"ri_check", "ri_init", "ri_fonts"}
LegacyPcs == {"l_frame", "l_storage", "l_render"}

InFacade(t) ==
    \/ pc[t] \in DrawPcs \cup ReinitPcs \cup LegacyPcs
    \/ pc[t] \in AcqPcs /\ ret[t] # "bare"

FacadeFree == \A u \in Threads : ~InFacade(u)
Quiescent  == \A u \in Threads : pc[u] = "idle"

\* Thread t is free to call into the provider.
CanStart(t) ==
    /\ ~crashed
    /\ alive
    /\ pc[t] = "idle"
    /\ t = MainThread => mainBusy = NoThread

\* The primary thread is free to call a facade operation.
CanCall(t) ==
    /\ t = MainThread
    /\ CanStart(t)
    /\ FacadeFree

\* The paths collect_img_paths extracts from script s: the scripts differ in
\* the image tags they contain.
ScriptPaths(s) ==
    CASE s % 6 = 1 -> <<1, 2>>
      [] s % 6 = 2 -> <<2>>
      [] s % 6 = 3 -> <<1>>
      [] s % 6 = 4 -> <<3, 1>>
      [] s % 6 = 5 -> <<2, 3, 1>>
      [] OTHER     -> <<2, 1>>

\* Key strings and disk locations.  Raw(p) is the path string itself,
\* Joined(d, p) is p made absolute against script directory d, Scanned(d, p)
\* is the entry of d whose lower-cased name equals p's lower-cased basename.
Raw(p) == <<"raw", p>>
Joined(d, p) == <<"joined", d, p>>
Scanned(d, p) == <<"scan", d, p>>

AllLocations ==
    {Raw(p) : p \in Paths}
        \cup {Joined(d, p) : d \in Dirs \ {NoDir}, p \in Paths \ AbsolutePaths}
        \cup {Scanned(d, p) : d \in Dirs \ {NoDir}, p \in Paths}

DefaultDisk == {Raw(1)}

path_is_absolute(p) == p \in AbsolutePaths

\* parse_tag_image_format succeeds: the extension is .png, .jpg, .jpeg or
\* .webp.  The paths in Paths have one, the paths in OtherPaths do not.
parse_tag_image_format(p) == p \in Paths

\* The format parse_tag_image_format reports for a path with a recognised
\* extension: path 1 ends in .png, path 2 in .jpg.
tag_image_format(p) == IF p = 1 THEN "ASS_TAG_IMAGE_FORMAT_PNG" ELSE "ASS_TAG_IMAGE_FORMAT_JPEG"

\* Variant of FileImage: the format is the one of the file's content, and the
\* files on disk are PNG files whatever their name.
FileImage_ContentFormat(p, loc) ==
    [key |-> loc, src |-> "file", format |-> "ASS_TAG_IMAGE_FORMAT_PNG"]

\* The TagImage decode_file_image makes for path p of the file at loc: the
\* format is the one parsed from p, the key the location.
FileImage(p, loc) == [key |-> loc, src |-> "file", format |-> tag_image_format(p)]

\* to_lower_copy(path_basename(p)): the referenced paths have different
\* basenames, each named after its path.
PathBase(p) == p

\* A file that exists and loads but has a zero width or height.
ZeroFile(loc) == <<"zero", loc>>

\* Variant of file_image_candidates: the raw path is tried before the
\* script-relative one.
file_image_candidates_RawFirst(p, dir) ==
    IF ~path_is_absolute(p) /\ dir # NoDir
    THEN <<Raw(p), Joined(dir, p)>>
    ELSE <<Raw(p)>>

file_image_candidates(p, dir) ==
    IF ~path_is_absolute(p) /\ dir # NoDir
    THEN <<Joined(dir, p), Raw(p)>>
    ELSE <<Raw(p)>>

\* decode_file_image, with the key RegisterTagImages gives the result
\* (the resolved path): the first candidate that exists and loads, else the
\* case-insensitive match in the script directory; decode_image_to_rgba
\* refusing the file that was found ends the search.
decode_file_image(p, dir, disk) ==
    LET cands == file_image_candidates(p, dir)
        hits == {i \in 1..Len(cands) : cands[i] \in disk \/ ZeroFile(cands[i]) \in disk}
        first == cands[CHOOSE i \in hits : \A j \in hits : i <= j]
    IN IF ~parse_tag_image_format(p) THEN NoImage
       ELSE IF hits # {}
       THEN IF ZeroFile(first) \in disk THEN NoImage
            ELSE FileImage(p, first)
       ELSE IF dir # NoDir /\ ZeroFile(Scanned(dir, p)) \in disk THEN NoImage
       ELSE IF dir # NoDir /\ Scanned(dir, p) \in disk
       THEN FileImage(p, Scanned(dir, p))
       ELSE NoImage

\* Attachments of the script.  BadAttachment stands for an entry
\* decode_attachment_image refuses (no filename header, unrecognised
\* extension, undecodable data, zero dimensions).  Attachment 1 is named like
\* path 1, attachment 2 has the basename of path 1 in another case, and
\* attachment 3 has the basename of the absolute path 2.
BadAttachment == 0
Attachments == {1, 2, 3}

\* TagImage::key of an attachment image: its filename.
AttKey(a) == IF a = 1 THEN Raw(1) ELSE <<"att", a>>

\* TagImage::basename_lower of an attachment image.
AttBase(a) == IF a = 3 THEN PathBase(2) ELSE PathBase(1)

\* The TagImage decode_attachment_image makes of attachment a.
AttachmentImage(a) ==
    [key |-> AttKey(a), src |-> "att", format |-> tag_image_format(AttBase(a))]

decode_attachment_image(a) == IF a \in Attachments THEN AttachmentImage(a) ELSE NoImage

\* The attachment lists PrepareSubtitles is given.
AttLists == {<<>>, <<1>>}

\* Variant of register_key: a refused registration discards the registrations
\* made so far.
register_key_RejectionClears(reg, key, quoted, img, rej) ==
    IF \E e \in reg : e.key = key /\ e.quoted = quoted
    THEN reg
    ELSE IF <<key, quoted>> \in rej
    THEN {}
    ELSE reg \cup {[key |-> key, quoted |-> quoted, img |-> img]}
\* Variant of register_key: registered_paths is not consulted, the engine
\* rebinds the key to the later image.
register_key_LastWins(reg, key, quoted, img, rej) ==
    IF <<key, quoted>> \in rej
    THEN reg
    ELSE {e \in reg : ~(e.key = key /\ e.quoted = quoted)}
             \cup {[key |-> key, quoted |-> quoted, img |-> img]}
register_key(reg, key, quoted, img, rej) ==
    IF \E e \in reg : e.key = key /\ e.quoted = quoted
    THEN reg
    ELSE IF <<key, quoted>> \in rej
    THEN reg
    ELSE reg \cup {[key |-> key, quoted |-> quoted, img |-> img]}

register_path_variants(reg, key, img, rej) ==
    register_key(register_key(reg, key, FALSE, img, rej), key, TRUE, img, rej)

\* First loop of RegisterTagImages: the attachment images.
RECURSIVE RegisterAttachments(_, _, _, _)
RegisterAttachments(atts, i, reg, rej) ==
    IF i > Len(atts) THEN reg
    ELSE RegisterAttachments(atts, i + 1,
             register_path_variants(reg, AttachmentImage(atts[i]).key,
                                    AttachmentImage(atts[i]), rej), rej)

\* Variant of AttachmentByName: the basename is not compared.
AttachmentByName_AnyName(atts, base) ==
    IF atts = <<>> THEN NoImage ELSE AttachmentImage(atts[1])

\* attachment_by_name.find(base): emplace keeps the first attachment of a
\* basename.
AttachmentByName(atts, base) ==
    LET named == {k \in 1..Len(atts) : AttBase(atts[k]) = base}
    IN IF named = {} THEN NoImage
       ELSE AttachmentImage(atts[CHOOSE k \in named : \A j \in named : k <= j])

\* Second loop of RegisterTagImages: the referenced paths.
RECURSIVE RegisterPaths(_, _, _, _, _, _, _)
RegisterPaths(paths, i, acc, dir, disk, atts, rej) ==
    IF i > Len(paths) THEN acc
    ELSE IF ~parse_tag_image_format(paths[i])
    THEN RegisterPaths(paths, i + 1, acc, dir, disk, atts, rej)
    ELSE
      LET p == paths[i]
          hit == acc.cache[p] # NoImage
          image == IF hit THEN acc.cache[p] ELSE decode_file_image(p, dir, disk)
          att == AttachmentByName(atts, PathBase(p))
          reg2 ==
            IF image # NoImage /\ image.format = tag_image_format(p)
            THEN register_path_variants(register_path_variants(acc.reg, Raw(p), image, rej),
                                        image.key, image, rej)
            ELSE IF path_is_absolute(p) \/ att = NoImage
                    \/ att.format # tag_image_format(p)
            THEN acc.reg
            ELSE register_path_variants(register_path_variants(acc.reg, Raw(p), att, rej),
                                        att.key, att, rej)
      IN RegisterPaths(paths, i + 1,
             [reg     |-> reg2,
              cache   |-> IF image # NoImage THEN [acc.cache EXCEPT ![p] = image]
                          ELSE acc.cache,
              touched |-> IF hit THEN acc.touched ELSE acc.touched \cup {p},
              memo    |-> IF hit THEN acc.memo \cup {p} ELSE acc.memo],
             dir, disk, atts, rej)

\* Variant of RegistrationPass: the referenced paths are registered before
\* the attachments.
RegistrationPass_PathsFirst(paths, dir, disk, atts, cache, rej) ==
    LET first == RegisterPaths(paths, 1,
                     [reg |-> {}, cache |-> cache, touched |-> {}, memo |-> {}],
                     dir, disk, atts, rej)
    IN  [first EXCEPT !.reg = RegisterAttachments(atts, 1, first.reg, rej)]

\* The whole pass of RegisterTagImages after ass_clear_tag_images.
RegistrationPass(paths, dir, disk, atts, cache, rej) ==
    RegisterPaths(paths, 1,
        [reg |-> RegisterAttachments(atts, 1, {}, rej), cache |-> cache,
         touched |-> {}, memo |-> {}],
        dir, disk, atts, rej)

NewCall == [ran |-> FALSE, canc |-> FALSE]

NoResult == [use_rgba |-> FALSE, imgs_rgba |-> FALSE, used |-> "none", freed |-> <<>>]

\* where renderer() returns to
AfterRenderer(r) ==
    CASE r = "bare"     -> "idle"
      [] r = "draw"     -> "d_check"
      [] r = "register" -> "g_pass"
      [] r = "frame"    -> "l_frame"
      [] r = "storage"  -> "l_storage"
      [] r = "render"   -> "l_render"

\* ass_renderer_done(h)
RendererDone(h) ==
    IF h = NullRenderer
    THEN UNCHANGED <<released, engPass, engTags>>
    ELSE /\ released' = [released EXCEPT ![h] = IF @ < 2 THEN @ + 1 ELSE @]
         /\ engPass' = [engPass EXCEPT ![h] = FALSE]
         /\ engTags' = [engTags EXCEPT ![h] = {}]

\* ---------------------------------------------------------------- Init
ProviderInit ==
    /\ renderer = NullRenderer
    /\ ready = FALSE
    /\ wpc = "queued"
    /\ wlocal = NullRenderer
    /\ alive = TRUE
    /\ created = 0
    /\ released = [h \in RendererIds |-> 0]
    /\ crashed = FALSE
    /\ tagApi \in BOOLEAN
    /\ engRejects = {}
    /\ csriTags = {}
    /\ libassTags = {}
    /\ ass_track = NullTrack
    /\ tag_image_paths = <<>>
    /\ tag_images_dirty = FALSE
    /\ tag_image_script_dir = NoDir
    /\ attachment_tag_images = <<>>
    /\ file_tag_image_cache = [p \in Paths |-> NoImage]
    /\ fs = DefaultDisk
    /\ fsTouched = {}
    /\ memoUsed = {}
    /\ engPass = [h \in RendererIds |-> FALSE]
    /\ engTags = [h \in RendererIds |-> {}]
    /\ pc = [t \in Threads |-> "idle"]
    /\ ret = [t \in Threads |-> "bare"]
    /\ res = [t \in Threads |-> NullRenderer]
    /\ local = [t \in Threads |-> NullRenderer]
    /\ frame = [t \in Threads |-> NoDims]
    /\ rr = [t \in Threads |-> NoResult]
    /\ drawLog = [t \in Threads |-> <<>>]
    /\ mainBusy = NoThread
    /\ call = [t \in Threads |-> NewCall]
    /\ conc = [t \in Threads |-> {}]

Init == ProviderInit /\ HelpersIdle

\* ------------------------------------------------------ the warm-up task
\* ass_renderer_init, and the font setup when it succeeded.
WorkerInit ==
    /\ ~crashed
    /\ wpc = "queued"
    /\ \E ok \in BOOLEAN :
        /\ ok => created < MaxRenderers
        /\ wlocal' = IF ok THEN created + 1 ELSE NullRenderer
        /\ created' = IF ok THEN created + 1 ELSE created
    /\ wpc' = "inited"
    /\ UNCHANGED <<sharedVars, alive, released, crashed, tagApi, engRejects, csriTags, libassTags, helperVars, provVars, cacheVars, engVars,
                   thrVars, mainBusy, histVars>>

\* Variant of WorkerStore: the flag is set where the handle should be stored.
WorkerStore_FlagFirst ==
    /\ ~crashed
    /\ wpc = "inited"
    /\ ready' = TRUE
    /\ wpc' = "stored"
    /\ UNCHANGED <<renderer, wlocal, lifeVars, provVars, cacheVars, engVars, thrVars, mainBusy,
                   histVars>>

\* state->renderer = ass_renderer
WorkerStore ==
    /\ ~crashed
    /\ wpc = "inited"
    /\ renderer' = wlocal
    /\ wpc' = "stored"
    /\ UNCHANGED <<ready, wlocal, lifeVars, provVars, cacheVars, engVars, thrVars, mainBusy,
                   histVars>>

\* Variant of WorkerFlag: a failed allocation leaves the flag unset.
WorkerFlag_NotOnNull ==
    /\ ~crashed
    /\ wpc = "stored"
    /\ ready' = (wlocal # NullRenderer)
    /\ wpc' = "flagged"
    /\ UNCHANGED <<renderer, wlocal, lifeVars, provVars, cacheVars, engVars, thrVars, mainBusy,
                   histVars>>

\* state->ready = true
WorkerFlag ==
    /\ ~crashed
    /\ wpc = "stored"
    /\ ready' = TRUE
    /\ wpc' = "flagged"
    /\ UNCHANGED <<renderer, wlocal, lifeVars, provVars, cacheVars, engVars, thrVars, mainBusy,
                   histVars>>

\* The task's closure is destroyed and drops its reference to the shared
\* state; ~cache_thread_shared runs if the provider is already gone.
WorkerDone ==
    /\ ~crashed
    /\ wpc = "flagged"
    /\ wpc' = "done"
    /\ IF alive THEN UNCHANGED <<released, engVars>> ELSE RendererDone(renderer)
    /\ UNCHANGED <<sharedVars, wlocal, alive, created, crashed, tagApi, engRejects, csriTags, libassTags, helperVars, provVars,
                   cacheVars, thrVars, mainBusy, histVars>>

\* ------------------------------------------------------------ renderer()
\* Variant of EnterRenderer: the fast path is missing.
EnterRenderer_NoFastPath(t, r) ==
    /\ ret' = [ret EXCEPT ![t] = r]
    /\ call' = [call EXCEPT ![t] = NewCall]
    /\ pc' = [pc EXCEPT ![t] = "r_dispatch"]
    /\ res' = res
    /\ LET others == {u \in Threads \ {t} : pc[u] \in AcqPcs}
       IN conc' = [u \in Threads |->
                     IF u = t THEN others
                     ELSE IF u \in others THEN conc[u] \cup {t}
                     ELSE conc[u] \ {t}]

\* Entry of renderer(): the fast path when ready is set.
EnterRenderer(t, r) ==
    /\ ret' = [ret EXCEPT ![t] = r]
    /\ call' = [call EXCEPT ![t] = NewCall]
    /\ IF ready
       THEN /\ pc' = [pc EXCEPT ![t] = AfterRenderer(r)]
            /\ res' = [res EXCEPT ![t] = renderer]
            /\ conc' = [u \in Threads |-> IF u = t THEN {} ELSE conc[u] \ {t}]
       ELSE /\ pc' = [pc EXCEPT ![t] = "r_dispatch"]
            /\ res' = res
            /\ LET others == {u \in Threads \ {t} : pc[u] \in AcqPcs}
               IN conc' = [u \in Threads |->
                             IF u = t THEN others
                             ELSE IF u \in others THEN conc[u] \cup {t}
                             ELSE conc[u] \ {t}]

\* A thread calls renderer() on its own.
Acquire(t) ==
    /\ t # MainThread
    /\ CanStart(t)
    /\ \A u \in Threads : pc[u] \notin ReinitPcs
    /\ EnterRenderer(t, "bare")
    /\ UNCHANGED <<sharedVars, workerVars, lifeVars, provVars, cacheVars, engVars, local, frame,
                   rr, drawLog, mainBusy>>

\* Variant of Dispatch: block() is run by the calling thread itself, without
\* handing it to the primary thread.
Dispatch_Direct(t) ==
    /\ ~crashed
    /\ pc[t] = "r_dispatch"
    /\ mainBusy' = t
    /\ pc' = [pc EXCEPT ![t] = "b_check1"]
    /\ UNCHANGED <<sharedVars, workerVars, lifeVars, provVars, cacheVars, engVars, ret, res,
                   local, frame, rr, drawLog, histVars>>

\* block() starts on the primary thread: directly when the caller is the
\* primary thread, through agi::dispatch::Main().Sync otherwise.
Dispatch(t) ==
    /\ ~crashed
    /\ pc[t] = "r_dispatch"
    /\ mainBusy = NoThread
    /\ t # MainThread => pc[MainThread] = "idle"
    /\ mainBusy' = t
    /\ pc' = [pc EXCEPT ![t] = "b_check1"]
    /\ UNCHANGED <<sharedVars, workerVars, lifeVars, provVars, cacheVars, engVars, ret, res,
                   local, frame, rr, drawLog, histVars>>

\* if (shared->ready) return;  (first check of block)
BlockCheck1(t) ==
    /\ ~crashed
    /\ pc[t] = "b_check1"
    /\ IF ready
       THEN /\ pc' = [pc EXCEPT ![t] = "r_ret"]
            /\ mainBusy' = NoThread
       ELSE /\ pc' = [pc EXCEPT ![t] = "b_sleep"]
            /\ mainBusy' = mainBusy
    /\ UNCHANGED <<sharedVars, workerVars, lifeVars, provVars, cacheVars, engVars, ret, res,
                   local, frame, rr, drawLog, histVars>>

\* agi::util::sleep_for(250)
BlockSleep(t) ==
    /\ ~crashed
    /\ pc[t] = "b_sleep"
    /\ pc' = [pc EXCEPT ![t] = "b_check2"]
    /\ UNCHANGED <<sharedVars, workerVars, lifeVars, provVars, cacheVars, engVars, ret, res,
                   local, frame, rr, drawLog, mainBusy, histVars>>

\* if (shared->ready) return; br->Run(...)
BlockCheck2(t) ==
    /\ ~crashed
    /\ pc[t] = "b_check2"
    /\ IF ready
       THEN /\ pc' = [pc EXCEPT ![t] = "r_ret"]
            /\ mainBusy' = NoThread
            /\ call' = call
       ELSE /\ pc' = [pc EXCEPT ![t] = "b_run"]
            /\ mainBusy' = mainBusy
            /\ call' = [call EXCEPT ![t].ran = TRUE]
    /\ UNCHANGED <<sharedVars, workerVars, lifeVars, provVars, cacheVars, engVars, ret, res,
                   local, frame, rr, drawLog, conc>>

\* Variant of RunWait: cancelling the wait also abandons the warm-up task.
RunWait_CancelStopsTask(t) ==
    /\ ~crashed
    /\ pc[t] = "b_run"
    /\ \E cancelled \in BOOLEAN :
        /\ ready \/ cancelled
        /\ call' = [call EXCEPT ![t].canc = cancelled]
        /\ wpc' = IF cancelled /\ ~ready /\ alive THEN "done" ELSE wpc
    /\ pc' = [pc EXCEPT ![t] = "r_ret"]
    /\ mainBusy' = NoThread
    /\ UNCHANGED <<sharedVars, wlocal, lifeVars, provVars, cacheVars, engVars, ret, res,
                   local, frame, rr, drawLog, conc>>

\* while (!shared->ready && !ps->IsCancelled()) sleep_for(250): the wait
\* ends when the flag is set or the user cancels.
RunWait(t) ==
    /\ ~crashed
    /\ pc[t] = "b_run"
    /\ \E cancelled \in BOOLEAN :
        /\ ready \/ cancelled
        /\ call' = [call EXCEPT ![t].canc = cancelled]
    /\ pc' = [pc EXCEPT ![t] = "r_ret"]
    /\ mainBusy' = NoThread
    /\ UNCHANGED <<sharedVars, workerVars, lifeVars, provVars, cacheVars, engVars, ret, res,
                   local, frame, rr, drawLog, conc>>

\* return shared->renderer;  (after block)
RendererReturn(t) ==
    /\ ~crashed
    /\ pc[t] = "r_ret"
    /\ res' = [res EXCEPT ![t] = renderer]
    /\ pc' = [pc EXCEPT ![t] = AfterRenderer(ret[t])]
    /\ UNCHANGED <<sharedVars, workerVars, lifeVars, provVars, cacheVars, engVars, ret, local,
                   frame, rr, drawLog, mainBusy, histVars>>

\* ------------------------------------------------------- facade operations
\* Variant of LoadSubtitles: the paths are extracted and the images marked
\* dirty before the result of ass_read_memory is checked.
LoadSubtitles_ExtractFirst(t, s, ok) ==
    /\ CanCall(t)
    /\ ass_track' = IF ok THEN s ELSE NullTrack
    /\ tag_image_paths' = ScriptPaths(s)
    /\ tag_images_dirty' = TRUE
    /\ UNCHANGED <<sharedVars, workerVars, lifeVars, cacheVars, engVars, thrVars,
                   mainBusy, histVars>>

\* LoadSubtitles(data, len): script s, accepted by ass_read_memory or not.
LoadSubtitles(t, s, ok) ==
    /\ CanCall(t)
    /\ ass_track' = IF ok THEN s ELSE NullTrack
    /\ tag_image_paths' = IF ok THEN ScriptPaths(s) ELSE tag_image_paths
    /\ tag_images_dirty' = IF ok THEN TRUE ELSE tag_images_dirty
    /\ UNCHANGED <<sharedVars, workerVars, lifeVars, cacheVars, engVars, thrVars,
                   mainBusy, histVars>>

\* Variant of PrepareSubtitles: the file memo survives a directory change.
PrepareSubtitles_KeepsMemo(t, dir, atts) ==
    /\ CanCall(t)
    /\ tag_image_script_dir' = dir
    /\ attachment_tag_images' = SelectSeq(atts, LAMBDA a : decode_attachment_image(a) # NoImage)
    /\ UNCHANGED <<sharedVars, workerVars, lifeVars, provVars, file_tag_image_cache, fs,
                   fsTouched, memoUsed, engVars, thrVars, mainBusy, histVars>>

\* Variant of PrepareSubtitles: the rebuilt attachment set is marked dirty.
PrepareSubtitles_MarksDirty(t, dir, atts) ==
    /\ CanCall(t)
    /\ file_tag_image_cache' = IF dir # tag_image_script_dir
                               THEN [p \in Paths |-> NoImage]
                               ELSE file_tag_image_cache
    /\ tag_image_script_dir' = dir
    /\ attachment_tag_images' = SelectSeq(atts, LAMBDA a : decode_attachment_image(a) # NoImage)
    /\ tag_images_dirty' = TRUE
    /\ UNCHANGED <<sharedVars, workerVars, lifeVars, ass_track, tag_image_paths, fs,
                   fsTouched, memoUsed, engVars, thrVars, mainBusy, histVars>>

\* PrepareSubtitles(subs): script directory dir, graphic attachments atts.
PrepareSubtitles(t, dir, atts) ==
    /\ CanCall(t)
    /\ file_tag_image_cache' = IF dir # tag_image_script_dir
                               THEN [p \in Paths |-> NoImage]
                               ELSE file_tag_image_cache
    /\ tag_image_script_dir' = dir
    /\ attachment_tag_images' = SelectSeq(atts, LAMBDA a : decode_attachment_image(a) # NoImage)
    /\ UNCHANGED <<sharedVars, workerVars, lifeVars, provVars, fs, fsTouched, memoUsed,
                   engVars, thrVars, mainBusy, histVars>>

\* A file appears on disk or disappears from it.
FsChange(loc) ==
    /\ ~crashed
    /\ fs' = IF loc \in fs THEN fs \ {loc} ELSE fs \cup {loc}
    /\ UNCHANGED <<sharedVars, workerVars, lifeVars, provVars, tag_image_script_dir,
                   attachment_tag_images, file_tag_image_cache, fsTouched, memoUsed,
                   engVars, thrVars, mainBusy, histVars>>

\* Reinitialize() is called.
ReinitializeCall(t) ==
    /\ CanCall(t)
    /\ Quiescent
    /\ pc' = [pc EXCEPT ![t] = "ri_check"]
    /\ UNCHANGED <<sharedVars, workerVars, lifeVars, provVars, cacheVars, engVars,
                   ret, res, local, frame, rr, drawLog, mainBusy, histVars>>

\* Variant of ReinitializeCheck: the ready check is missing.
ReinitializeCheck_NoGuard(t) ==
    /\ ~crashed
    /\ pc[t] = "ri_check"
    /\ RendererDone(renderer)
    /\ pc' = [pc EXCEPT ![t] = "ri_init"]
    /\ UNCHANGED <<sharedVars, workerVars, alive, created, crashed, tagApi, engRejects, csriTags, libassTags, helperVars, provVars,
                   cacheVars, ret, res, local, frame, rr, drawLog, mainBusy, histVars>>

\* Variant of ReinitializeCheck: the old renderer is not released.
ReinitializeCheck_NoRelease(t) ==
    /\ ~crashed
    /\ pc[t] = "ri_check"
    /\ pc' = [pc EXCEPT ![t] = IF ready THEN "ri_init" ELSE "idle"]
    /\ UNCHANGED <<sharedVars, workerVars, lifeVars, provVars, cacheVars, engVars,
                   ret, res, local, frame, rr, drawLog, mainBusy, histVars>>

\* if (!shared->ready) return; api.ass_renderer_done(shared->renderer);
ReinitializeCheck(t) ==
    /\ ~crashed
    /\ pc[t] = "ri_check"
    /\ IF ready
       THEN /\ RendererDone(renderer)
            /\ pc' = [pc EXCEPT ![t] = "ri_init"]
       ELSE /\ pc' = [pc EXCEPT ![t] = "idle"]
            /\ UNCHANGED <<released, engVars>>
    /\ UNCHANGED <<sharedVars, workerVars, alive, created, crashed, tagApi, engRejects, csriTags, libassTags, helperVars, provVars,
                   cacheVars, ret, res, local, frame, rr, drawLog, mainBusy, histVars>>

\* Variant of ReinitializeInit: the new renderer is not stored.
ReinitializeInit_NotStored(t) ==
    /\ ~crashed
    /\ pc[t] = "ri_init"
    /\ \E ok \in BOOLEAN :
        /\ ok => created < MaxRenderers
        /\ created' = IF ok THEN created + 1 ELSE created
    /\ pc' = [pc EXCEPT ![t] = "ri_fonts"]
    /\ UNCHANGED <<sharedVars, workerVars, alive, released, crashed, tagApi, engRejects, csriTags, libassTags, helperVars, provVars,
                   cacheVars, engVars, ret, res, local, frame, rr, drawLog, mainBusy,
                   histVars>>

\* shared->renderer = api.ass_renderer_init(library)
ReinitializeInit(t) ==
    /\ ~crashed
    /\ pc[t] = "ri_init"
    /\ \E ok \in BOOLEAN :
        /\ ok => created < MaxRenderers
        /\ renderer' = IF ok THEN created + 1 ELSE NullRenderer
        /\ created' = IF ok THEN created + 1 ELSE created
    /\ pc' = [pc EXCEPT ![t] = "ri_fonts"]
    /\ UNCHANGED <<ready, workerVars, alive, released, crashed, tagApi, engRejects, csriTags, libassTags, helperVars, provVars,
                   cacheVars, engVars, ret, res, local, frame, rr, drawLog, mainBusy,
                   histVars>>

\* Variant of ReinitializeFonts: tag_images_dirty is not set.
ReinitializeFonts_NotDirty(t) ==
    /\ ~crashed
    /\ pc[t] = "ri_fonts"
    /\ \E survives \in BOOLEAN :
        /\ renderer # NullRenderer => survives
        /\ crashed' = ~survives
        /\ pc' = IF survives THEN [pc EXCEPT ![t] = "idle"] ELSE pc
    /\ UNCHANGED <<sharedVars, workerVars, alive, created, released, tagApi, engRejects, csriTags, libassTags, helperVars, provVars,
                   cacheVars, engVars, ret, res, local, frame, rr,
                   drawLog, mainBusy, histVars>>

\* ass_set_font_scale and ass_set_fonts on the new renderer, then
\* tag_images_dirty = true.  With a null renderer the engine dereferences a
\* null pointer: the process dies, or the call happens to survive.
ReinitializeFonts(t) ==
    /\ ~crashed
    /\ pc[t] = "ri_fonts"
    /\ \E survives \in BOOLEAN :
        /\ renderer # NullRenderer => survives
        /\ crashed' = ~survives
        /\ tag_images_dirty' = IF survives THEN TRUE ELSE tag_images_dirty
        /\ pc' = IF survives THEN [pc EXCEPT ![t] = "idle"] ELSE pc
    /\ UNCHANGED <<sharedVars, workerVars, alive, created, released, tagApi, engRejects, csriTags, libassTags, helperVars, ass_track,
                   tag_image_paths, cacheVars, engVars, ret, res, local, frame, rr,
                   drawLog, mainBusy, histVars>>

\* ~LibassModSubtitlesProvider: frees the track and drops the provider's
\* reference to the shared state; ~cache_thread_shared runs if the warm-up
\* task has already dropped its own.
Destroy(t) ==
    /\ CanCall(t)
    /\ Quiescent
    /\ alive' = FALSE
    /\ ass_track' = NullTrack
    /\ IF wpc = "done" THEN RendererDone(renderer) ELSE UNCHANGED <<released, engVars>>
    /\ UNCHANGED <<sharedVars, workerVars, created, crashed, tagApi, engRejects, csriTags, libassTags, helperVars, tag_image_paths,
                   tag_images_dirty, cacheVars, thrVars, mainBusy, histVars>>

\* ------------------------------------------------ CSRISubtitlesProvider
\* file_image_candidates of the CSRI provider: the raw path first.
CsriCandidates(p, dir) ==
    IF ~path_is_absolute(p) /\ dir # NoDir
    THEN <<Raw(p), Joined(dir, p)>>
    ELSE <<Raw(p)>>

\* decode_file_image of the CSRI provider: the first candidate that loads.
CsriFileImage(p, dir, disk) ==
    LET cands == CsriCandidates(p, dir)
        hits == {i \in 1..Len(cands) : cands[i] \in disk \/ ZeroFile(cands[i]) \in disk}
        first == cands[CHOOSE i \in hits : \A j \in hits : i <= j]
    IN IF ~parse_tag_image_format(p) \/ hits = {} THEN NoImage
       ELSE IF ZeroFile(first) \in disk THEN NoImage
       ELSE FileImage(p, first)

\* The path loop of CSRISubtitlesProvider::RegisterTagImages: an attachment
\* with the path's basename is used before any file is looked for.
RECURSIVE CsriRegisterPaths(_, _, _, _, _, _, _)
CsriRegisterPaths(paths, i, reg, dir, disk, atts, rej) ==
    IF i > Len(paths) THEN reg
    ELSE IF ~parse_tag_image_format(paths[i])
    THEN CsriRegisterPaths(paths, i + 1, reg, dir, disk, atts, rej)
    ELSE
      LET p == paths[i]
          att == AttachmentByName(atts, PathBase(p))
          image == IF att # NoImage THEN att ELSE CsriFileImage(p, dir, disk)
      IN CsriRegisterPaths(paths, i + 1,
             IF image = NoImage THEN reg
             ELSE register_path_variants(reg, Raw(p), image, rej),
             dir, disk, atts, rej)

\* CSRISubtitlesProvider::LoadSubtitles(data, len): csri_open_mem, then
\* RegisterTagImages on the new instance when there is one and the renderer
\* has the tag-image extension.
CsriLoadSubtitles(t, s, ok) ==
    /\ CanCall(t)
    /\ csriTags' = IF ok /\ tagApi
                   THEN CsriRegisterPaths(ScriptPaths(s), 1,
                            RegisterAttachments(attachment_tag_images, 1, {}, engRejects),
                            tag_image_script_dir, fs, attachment_tag_images, engRejects)
                   ELSE {}
    /\ UNCHANGED <<sharedVars, workerVars, alive, created, released, crashed, tagApi,
                   engRejects, libassTags, helperVars, provVars, cacheVars, engVars, thrVars,
                   mainBusy, histVars>>

\* ----------------------------------------------------------- DrawSubtitles
\* DrawSubtitles(frame, time) is called and enters renderer().
DrawSubtitlesBegin(t, f) ==
    /\ CanCall(t)
    /\ frame' = [frame EXCEPT ![t] = f]
    /\ EnterRenderer(t, "draw")
    /\ UNCHANGED <<sharedVars, workerVars, lifeVars, provVars, cacheVars, engVars,
                   local, rr, drawLog, mainBusy>>

\* DrawSubtitles returns: its locals go out of scope.
DrawReturns(t) ==
    /\ pc' = [pc EXCEPT ![t] = "idle"]
    /\ local' = [local EXCEPT ![t] = NullRenderer]
    /\ frame' = [frame EXCEPT ![t] = NoDims]
    /\ rr' = [rr EXCEPT ![t] = NoResult]
    /\ drawLog' = [drawLog EXCEPT ![t] = <<>>]

\* ass_renderer = renderer(); if (!ass_renderer || !ass_track) return;
DrawCheck(t) ==
    /\ ~crashed
    /\ pc[t] = "d_check"
    /\ IF res[t] = NullRenderer \/ ass_track = NullTrack
       THEN DrawReturns(t)
       ELSE /\ local' = [local EXCEPT ![t] = res[t]]
            /\ drawLog' = [drawLog EXCEPT ![t] = Append(@, <<"renderer">>)]
            /\ pc' = [pc EXCEPT ![t] = "d_register"]
            /\ UNCHANGED <<frame, rr>>
    /\ UNCHANGED <<sharedVars, workerVars, lifeVars, provVars, cacheVars, engVars,
                   ret, res, mainBusy, histVars>>

\* RegisterTagImages() is called: it returns at once when the images are
\* not dirty, and enters renderer() otherwise.
DrawRegister(t) ==
    /\ ~crashed
    /\ pc[t] = "d_register"
    /\ IF tag_images_dirty
       THEN EnterRenderer(t, "register")
       ELSE /\ pc' = [pc EXCEPT ![t] = "d_frame"]
            /\ UNCHANGED <<ret, res, call, conc>>
    /\ UNCHANGED <<sharedVars, workerVars, lifeVars, provVars, cacheVars, engVars,
                   local, frame, rr, drawLog, mainBusy>>

\* Variant of RegisterTagImages: the pass does not clear tag_images_dirty.
RegisterTagImages_KeepsDirty(t) ==
    /\ ~crashed
    /\ pc[t] = "g_pass"
    /\ pc' = [pc EXCEPT ![t] = "d_frame"]
    /\ IF res[t] = NullRenderer
       THEN UNCHANGED <<tag_images_dirty, file_tag_image_cache, fsTouched, memoUsed,
                        engPass, engTags, drawLog>>
       ELSE IF ~tagApi
       THEN /\ tag_images_dirty' = FALSE
            /\ UNCHANGED <<file_tag_image_cache, fsTouched, memoUsed, engPass, engTags,
                           drawLog>>
       ELSE LET pass == RegistrationPass(tag_image_paths, tag_image_script_dir, fs,
                                         attachment_tag_images, file_tag_image_cache,
                                         engRejects)
            IN /\ engPass' = [engPass EXCEPT ![res[t]] = TRUE]
               /\ engTags' = [engTags EXCEPT ![res[t]] = pass.reg]
               /\ file_tag_image_cache' = pass.cache
               /\ fsTouched' = pass.touched
               /\ memoUsed' = pass.memo
               /\ tag_images_dirty' = tag_images_dirty
               /\ drawLog' = [drawLog EXCEPT ![t] = Append(@, <<"ass_clear_tag_images">>)]
    /\ UNCHANGED <<sharedVars, workerVars, lifeVars, ass_track, tag_image_paths,
                   tag_image_script_dir, attachment_tag_images, fs, ret, res,
                   local, frame, rr, mainBusy, histVars>>

\* The rest of RegisterTagImages with the renderer it acquired.
RegisterTagImages(t) ==
    /\ ~crashed
    /\ pc[t] = "g_pass"
    /\ pc' = [pc EXCEPT ![t] = "d_frame"]
    /\ IF res[t] = NullRenderer
       THEN UNCHANGED <<tag_images_dirty, file_tag_image_cache, fsTouched, memoUsed,
                        engPass, engTags, drawLog>>
       ELSE IF ~tagApi
       THEN /\ tag_images_dirty' = FALSE
            /\ UNCHANGED <<file_tag_image_cache, fsTouched, memoUsed, engPass, engTags,
                           drawLog>>
       ELSE LET pass == RegistrationPass(tag_image_paths, tag_image_script_dir, fs,
                                         attachment_tag_images, file_tag_image_cache,
                                         engRejects)
            IN /\ engPass' = [engPass EXCEPT ![res[t]] = TRUE]
               /\ engTags' = [engTags EXCEPT ![res[t]] = pass.reg]
               /\ file_tag_image_cache' = pass.cache
               /\ fsTouched' = pass.touched
               /\ memoUsed' = pass.memo
               /\ tag_images_dirty' = FALSE
               /\ drawLog' = [drawLog EXCEPT ![t] = Append(@, <<"ass_clear_tag_images">>)]
    /\ UNCHANGED <<sharedVars, workerVars, lifeVars, ass_track, tag_image_paths,
                   tag_image_script_dir, attachment_tag_images, fs, ret, res,
                   local, frame, rr, mainBusy, histVars>>

\* api.ass_set_frame_size(ass_renderer, frame.width, frame.height)
DrawFrameSize(t) ==
    /\ ~crashed
    /\ pc[t] = "d_frame"
    /\ drawLog' = [drawLog EXCEPT ![t] =
                      Append(@, <<"ass_set_frame_size", local[t], frame[t][1], frame[t][2]>>)]
    /\ pc' = [pc EXCEPT ![t] = "d_storage"]
    /\ UNCHANGED <<sharedVars, workerVars, lifeVars, provVars, cacheVars, engVars,
                   ret, res, local, frame, rr, mainBusy, histVars>>

\* Variant of DrawStorageSize: the render is requested without the storage
\* size having been set.
DrawStorageSize_Late(t) ==
    /\ ~crashed
    /\ pc[t] = "d_storage"
    /\ pc' = [pc EXCEPT ![t] = "d_render"]
    /\ UNCHANGED <<sharedVars, workerVars, lifeVars, provVars, cacheVars, engVars,
                   ret, res, local, frame, rr, drawLog, mainBusy, histVars>>

\* api.ass_set_storage_size(ass_renderer, frame.width, frame.height)
DrawStorageSize(t) ==
    /\ ~crashed
    /\ pc[t] = "d_storage"
    /\ drawLog' = [drawLog EXCEPT ![t] =
                      Append(@, <<"ass_set_storage_size", local[t], frame[t][1], frame[t][2]>>)]
    /\ pc' = [pc EXCEPT ![t] = "d_render"]
    /\ UNCHANGED <<sharedVars, workerVars, lifeVars, provVars, cacheVars, engVars,
                   ret, res, local, frame, rr, mainBusy, histVars>>

\* render_result = api.ass_render_frame_auto(ass_renderer, ass_track, ...)
DrawRender(t) ==
    /\ ~crashed
    /\ pc[t] = "d_render"
    /\ \E use_rgba \in BOOLEAN, imgs_rgba \in BOOLEAN :
        rr' = [rr EXCEPT ![t] = [use_rgba |-> use_rgba, imgs_rgba |-> imgs_rgba,
                                 used |-> "none", freed |-> <<>>]]
    /\ drawLog' = [drawLog EXCEPT ![t] =
                      Append(@, <<"ass_render_frame_auto", local[t], ass_track>>)]
    /\ pc' = [pc EXCEPT ![t] = "d_composite"]
    /\ UNCHANGED <<sharedVars, workerVars, lifeVars, provVars, cacheVars, engVars,
                   ret, res, local, frame, mainBusy, histVars>>

\* The two blending loops: the RGBA list when it is preferred and present,
\* the alpha-masked list otherwise.
DrawComposite(t) ==
    /\ ~crashed
    /\ pc[t] = "d_composite"
    /\ rr' = [rr EXCEPT ![t].used = IF rr[t].use_rgba /\ rr[t].imgs_rgba
                                    THEN "rgba" ELSE "mask"]
    /\ drawLog' = [drawLog EXCEPT ![t] = Append(@, <<"composite">>)]
    /\ pc' = [pc EXCEPT ![t] = "d_free"]
    /\ UNCHANGED <<sharedVars, workerVars, lifeVars, provVars, cacheVars, engVars,
                   ret, res, local, frame, mainBusy, histVars>>

\* Variant of DrawFree: the RGBA list is released only when it was the list
\* that was blended.
DrawFree_OnlyIfUsed(t) ==
    /\ ~crashed
    /\ pc[t] = "d_free"
    /\ rr' = [rr EXCEPT ![t].freed = IF rr[t].used = "rgba"
                                     THEN Append(@, "imgs_rgba") ELSE @]
    /\ pc' = [pc EXCEPT ![t] = "d_return"]
    /\ UNCHANGED <<sharedVars, workerVars, lifeVars, provVars, cacheVars, engVars,
                   ret, res, local, frame, drawLog, mainBusy, histVars>>

\* if (render_result.imgs_rgba) api.ass_free_images_rgba(render_result.imgs_rgba);
\* freed lists the image lists DrawSubtitles has handed back to the engine.
DrawFree(t) ==
    /\ ~crashed
    /\ pc[t] = "d_free"
    /\ rr' = [rr EXCEPT ![t].freed = IF rr[t].imgs_rgba
                                     THEN Append(@, "imgs_rgba") ELSE @]
    /\ pc' = [pc EXCEPT ![t] = "d_return"]
    /\ UNCHANGED <<sharedVars, workerVars, lifeVars, provVars, cacheVars, engVars,
                   ret, res, local, frame, drawLog, mainBusy, histVars>>

\* The closing brace of DrawSubtitles.
DrawEnd(t) ==
    /\ ~crashed
    /\ pc[t] = "d_return"
    /\ DrawReturns(t)
    /\ UNCHANGED <<sharedVars, workerVars, lifeVars, provVars, cacheVars, engVars,
                   ret, res, mainBusy, histVars>>

\* ------------------------- DrawSubtitles of the build without tag images
\* DrawSubtitles(frame, time) is called: the argument of ass_set_frame_size
\* is a call of renderer().
LegacyDrawBegin(t, f) ==
    /\ CanCall(t)
    /\ frame' = [frame EXCEPT ![t] = f]
    /\ EnterRenderer(t, "frame")
    /\ UNCHANGED <<sharedVars, workerVars, lifeVars, provVars, cacheVars, engVars,
                   local, rr, drawLog, mainBusy>>

\* api.ass_set_frame_size(renderer(), frame.width, frame.height), with
\* whatever renderer() returned, then renderer() is entered again.
LegacyFrameSize(t) ==
    /\ ~crashed
    /\ pc[t] = "l_frame"
    /\ drawLog' = [drawLog EXCEPT ![t] =
                      Append(@, <<"ass_set_frame_size", res[t], frame[t][1], frame[t][2]>>)]
    /\ EnterRenderer(t, "storage")
    /\ UNCHANGED <<sharedVars, workerVars, lifeVars, provVars, cacheVars, engVars,
                   local, frame, rr, mainBusy>>

\* api.ass_set_storage_size(renderer(), frame.width, frame.height)
LegacyStorageSize(t) ==
    /\ ~crashed
    /\ pc[t] = "l_storage"
    /\ drawLog' = [drawLog EXCEPT ![t] =
                      Append(@, <<"ass_set_storage_size", res[t], frame[t][1], frame[t][2]>>)]
    /\ EnterRenderer(t, "render")
    /\ UNCHANGED <<sharedVars, workerVars, lifeVars, provVars, cacheVars, engVars,
                   local, frame, rr, mainBusy>>

\* render_result = api.ass_render_frame_auto(renderer(), ass_track, ...)
LegacyRender(t) ==
    /\ ~crashed
    /\ pc[t] = "l_render"
    /\ \E use_rgba \in BOOLEAN, imgs_rgba \in BOOLEAN :
        rr' = [rr EXCEPT ![t] = [use_rgba |-> use_rgba, imgs_rgba |-> imgs_rgba,
                                 used |-> "none", freed |-> <<>>]]
    /\ drawLog' = [drawLog EXCEPT ![t] =
                      Append(@, <<"ass_render_frame_auto", res[t], ass_track>>)]
    /\ pc' = [pc EXCEPT ![t] = "d_composite"]
    /\ UNCHANGED <<sharedVars, workerVars, lifeVars, provVars, cacheVars, engVars,
                   ret, res, local, frame, mainBusy, histVars>>

LegacyDraw ==
    \/ \E t \in Threads, f \in FrameDims : LegacyDrawBegin(t, f)
    \/ \E t \in Threads : LegacyFrameSize(t)
    \/ \E t \in Threads : LegacyStorageSize(t)
    \/ \E t \in Threads : LegacyRender(t)
    \/ \E t \in Threads : DrawComposite(t)
    \/ \E t \in Threads : DrawFree(t)
    \/ \E t \in Threads : DrawEnd(t)

Worker ==
    \/ WorkerInit
    \/ WorkerStore
    \/ WorkerFlag
    \/ WorkerDone

Renderer ==
    \/ \E t \in Threads : Acquire(t)
    \/ \E t \in Threads : Dispatch(t)
    \/ \E t \in Threads : BlockCheck1(t)
    \/ \E t \in Threads : BlockSleep(t)
    \/ \E t \in Threads : BlockCheck2(t)
    \/ \E t \in Threads : RunWait(t)
    \/ \E t \in Threads : RendererReturn(t)

Draw ==
    \/ \E t \in Threads, f \in FrameDims : DrawSubtitlesBegin(t, f)
    \/ \E t \in Threads : DrawCheck(t)
    \/ \E t \in Threads : DrawRegister(t)
    \/ \E t \in Threads : RegisterTagImages(t)
    \/ \E t \in Threads : DrawFrameSize(t)
    \/ \E t \in Threads : DrawStorageSize(t)
    \/ \E t \in Threads : DrawRender(t)
    \/ \E t \in Threads : DrawComposite(t)
    \/ \E t \in Threads : DrawFree(t)
    \/ \E t \in Threads : DrawEnd(t)

Reinitialize ==
    \/ \E t \in Threads : ReinitializeCall(t)
    \/ \E t \in Threads : ReinitializeCheck(t)
    \/ \E t \in Threads : ReinitializeInit(t)
    \/ \E t \in Threads : ReinitializeFonts(t)

Next ==
    \/ Worker
    \/ Renderer
    \/ Draw
    \/ Reinitialize
    \/ \E t \in Threads, s \in Scripts, ok \in BOOLEAN : LoadSubtitles(t, s, ok)
    \/ \E t \in Threads : Destroy(t)

Spec == Init /\ [][Next]_vars
\* The warm-up task runs on a background queue of its own: nothing the
\* provider's callers do can keep it from taking its next step.
FairSpec == Spec /\ WF_vars(Worker)

\* The provider of the build without tag images: the same warm-up and
\* renderer(), and its own DrawSubtitles.
LegacyNext ==
    \/ Worker
    \/ Renderer
    \/ LegacyDraw

LegacySpec == Init /\ [][LegacyNext]_vars

\* ------------------------------------------------------------- properties
\* Pairs of finished renderer() calls that overlapped before ready was set.
ConcurrentPairs ==
    {q \in Threads \X Threads :
        /\ q[1] # q[2]
        /\ q[2] \in conc[q[1]]
        /\ q[1] \in conc[q[2]]
        /\ pc[q[1]] \notin AcqPcs
        /\ pc[q[2]] \notin AcqPcs}

SameHandleOneWait(q) ==
    /\ ~(call[q[1]].ran /\ call[q[2]].ran)
    /\ res[q[1]] = res[q[2]]
    /\ res[q[1]] = wlocal

\* C1 as stated: of two renderer() calls that overlap before the warm-up has
\* finished, at most one starts the br->Run wait, and both return the same
\* handle, the one the warm-up task published.
C1_Original == \A q \in ConcurrentPairs : SameHandleOneWait(q)

\* C1: of two renderer() calls that overlap before the warm-up has finished
\* and whose waits are not cancelled, at most one starts the br->Run wait, and
\* both return the same handle, the one the warm-up task published.
C1_Theorem ==
    \A q \in ConcurrentPairs :
        (~call[q[1]].canc /\ ~call[q[2]].canc) => SameHandleOneWait(q)

C1_Witness ==
    \E q \in ConcurrentPairs :
        /\ ~call[q[1]].canc /\ ~call[q[2]].canc
        /\ call[q[1]].ran
        /\ ~call[q[2]].ran
        /\ res[q[1]] = wlocal /\ res[q[2]] = wlocal
        /\ wlocal # NullRenderer

\* Program points at which DrawSubtitles holds the renderer it acquired.
UsePcs == {"d_register", "g_pass", "d_frame", "d_storage", "d_render", "d_composite",
           "d_free"}

\* C2: every renderer is released at most once and, once provider and
\* warm-up task are both gone, exactly once; a renderer that is not released
\* is the published one or the one the warm-up task is about to publish; no
\* renderer is released while a DrawSubtitles that obtained it is using it.
C2_Theorem ==
    /\ \A h \in RendererIds : released[h] <= 1
    /\ \A h \in 1..created :
          released[h] = 0 => (h = renderer \/ (h = wlocal /\ wpc = "inited"))
    /\ (~alive /\ wpc = "done") => \A h \in 1..created : released[h] = 1
    /\ \A t \in Threads :
          (pc[t] \in UsePcs \/ (pc[t] \in AcqPcs /\ ret[t] = "register"))
              => (local[t] \in 1..created /\ released[local[t]] = 0)

C2_Witness ==
    /\ ~alive
    /\ wpc = "done"
    /\ created = 2
    /\ \A h \in 1..created : released[h] = 1

\* Program points at which a renderer() call is blocked: queued for the
\* primary thread, sleeping, or inside the br->Run wait.
BlockedPcs == {"r_dispatch", "b_sleep", "b_run"}

\* C3 as stated: no renderer() call is blocked in a state where ready is
\* set.
C3_Original == ready => \A t \in Threads : pc[t] \notin BlockedPcs

\* C3: once ready is set no renderer() call starts to block: a call made
\* then returns the handle at once, and a call that was already blocked
\* returns at its next check without starting a sleep or a wait.
C3_Theorem ==
    [][ready =>
         \A t \in Threads :
            /\ pc'[t] \in BlockedPcs => pc'[t] = pc[t]
            /\ (pc[t] \notin AcqPcs /\ pc'[t] # pc[t]) => pc'[t] \notin AcqPcs
            /\ (pc[t] \in {"b_check1", "b_check2", "b_run"} /\ pc'[t] # pc[t])
                   => pc'[t] = "r_ret"]_vars

C3_Witness ==
    /\ ready
    /\ \E t \in Threads : pc[t] = "r_ret" /\ call[t].ran /\ ~call[t].canc
    /\ \E u \in Threads : pc[u] = "r_dispatch"

\* C4: the step that ends a wait, cancelled or not, leaves the warm-up task
\* and the shared state as they are; after a cancelled wait the task still
\* sets ready; and once ready is set a renderer() call does not enter the
\* slow path and returns the published handle.
C4_Theorem ==
    /\ [][\A t \in Threads :
            (pc[t] = "b_run" /\ pc'[t] # "b_run")
                => UNCHANGED <<wpc, wlocal, renderer, ready, created, released>>]_vars
    /\ [][\A t \in Threads :
            ready => /\ (pc[t] \notin AcqPcs => pc'[t] \notin AcqPcs)
                     /\ (res'[t] # res[t] => res'[t] = renderer)]_vars
    /\ (\E t \in Threads : call[t].canc /\ ~ready) ~> (ready /\ renderer = wlocal)

C4_Witness ==
    /\ ready
    /\ wlocal # NullRenderer
    /\ \E t \in Threads :
          /\ call[t].canc
          /\ res[t] = NullRenderer
          /\ \E u \in Threads \ {t} :
                pc[u] = "idle" /\ call[u] = NewCall /\ res[u] = wlocal

\* C5: a Reinitialize() that finds ready unset returns without changing the
\* renderer, the ready flag, the dirty flag or the warm-up task, and without
\* creating or releasing a renderer.
C5_Theorem ==
    [][\A t \in Threads :
          (pc[t] = "ri_check" /\ ~ready /\ pc'[t] # pc[t])
              => /\ pc'[t] = "idle"
                 /\ UNCHANGED <<renderer, ready, tag_images_dirty, wpc, wlocal, created,
                                released, engPass, engTags>>]_vars

C5_Witness ==
    \E t \in Threads : pc[t] = "ri_check" /\ ~ready /\ wpc = "inited"

\* Program points of DrawSubtitles after the render has been requested.
RenderedPcs == {"d_composite", "d_free"}

\* C6 as stated: a DrawSubtitles that renders with a renderer created by
\* Reinitialize() has cleared and re-registered the tag images on that
\* renderer before the render.
C6_Original ==
    \A t \in Threads :
        (pc[t] \in RenderedPcs /\ local[t] # wlocal) => engPass[local[t]]

\* C6: when the engine exports the tag-image functions, a DrawSubtitles that
\* renders with a renderer created by Reinitialize() has cleared and
\* re-registered the tag images on that renderer before the render, and the
\* clearing precedes the size settings and the render in the draw.
C6_Theorem ==
    \A t \in Threads :
        (tagApi /\ pc[t] \in RenderedPcs /\ local[t] # wlocal)
            => /\ engPass[local[t]]
               /\ engTags[local[t]] =
                      RegistrationPass(tag_image_paths, tag_image_script_dir, fs,
                                       attachment_tag_images,
                                       [p \in Paths |-> NoImage], engRejects).reg
               /\ ~tag_images_dirty

C6_Witness ==
    \E t \in Threads :
        /\ tagApi
        /\ pc[t] = "d_composite"
        /\ local[t] # wlocal
        /\ engPass[local[t]]
        /\ engTags[local[t]] # {}
        /\ drawLog[t][2] = <<"ass_clear_tag_images">>

\* C7 as stated: after LoadSubtitles the track and the path list belong to
\* one and the same script, the new one on success and the previous one on
\* failure.
C7_Original ==
    alive => tag_image_paths = IF ass_track = NullTrack THEN <<>> ELSE ScriptPaths(ass_track)

\* C7: a loaded track always belongs to the script the path list was
\* extracted from; a LoadSubtitles that fails leaves no track loaded, and
\* leaves the path list and the dirty flag of the previous script as they
\* were.
C7_Theorem ==
    /\ [](ass_track # NullTrack => tag_image_paths = ScriptPaths(ass_track))
    /\ [][(alive' /\ ass_track # NullTrack /\ ass_track' = NullTrack)
            => (tag_image_paths' = tag_image_paths
                /\ tag_images_dirty' = tag_images_dirty)]_vars

C7_Witness ==
    /\ alive
    /\ ass_track = NullTrack
    /\ tag_image_paths # <<>>
    /\ ~tag_images_dirty

\* The engine calls of a complete DrawSubtitles(frame) with renderer h, with
\* or without a registration pass.
DrawOrder(h, f, track, pass) ==
    <<<<"renderer">>>>
        \o (IF pass THEN <<<<"ass_clear_tag_images">>>> ELSE <<>>)
        \o << <<"ass_set_frame_size", h, f[1], f[2]>>,
               <<"ass_set_storage_size", h, f[1], f[2]>>,
               <<"ass_render_frame_auto", h, track>>,
               <<"composite">> >>

IsPrefix(a, b) == Len(a) <= Len(b) /\ a = SubSeq(b, 1, Len(a))

\* C8: a DrawSubtitles acquires the renderer, then runs the registration
\* pass if one is due, then sets the frame size and the storage size, both
\* to the dimensions of the frame, then requests the render, then
\* composites; a draw that has rendered has done all the earlier steps.
C8_Theorem ==
    \A t \in Threads :
        pc[t] \in UsePcs =>
            /\ \E pass \in BOOLEAN :
                  IsPrefix(drawLog[t], DrawOrder(local[t], frame[t], ass_track, pass))
            /\ pc[t] \in RenderedPcs => Len(drawLog[t]) >= 4
            /\ pc[t] = "d_free" => Len(drawLog[t]) >= 5

C8_Witness ==
    \E t \in Threads :
        /\ pc[t] = "d_free"
        /\ drawLog[t] = DrawOrder(local[t], frame[t], ass_track, TRUE)
        /\ frame[t] = <<1, 2>>

\* The warm-up task has run ass_renderer_init and it returned null.
WarmupFailed == wpc # "queued" /\ wlocal = NullRenderer

\* C9 as stated: a failed warm-up allocation is not turned into a ready
\* provider whose renderer is null.
C9_Original == ~(WarmupFailed /\ ready /\ renderer = NullRenderer /\ created = 0)

\* C9: a failed warm-up allocation raises no error: the task publishes the
\* null renderer and sets ready, renderer() then returns null without
\* waiting, and no DrawSubtitles reaches the engine until a Reinitialize()
\* has created a renderer.
C9_Theorem ==
    WarmupFailed =>
        /\ wpc \in {"flagged", "done"} => ready
        /\ wpc \in {"stored", "flagged", "done"} /\ created = 0
              => renderer = NullRenderer
        /\ created = 0 => \A t \in Threads : pc[t] \notin UsePcs /\ res[t] = NullRenderer

C9_Witness ==
    /\ WarmupFailed
    /\ wpc = "done"
    /\ ready
    /\ renderer = NullRenderer
    /\ alive
    /\ \E t \in Threads : call[t].ran /\ ~call[t].canc /\ pc[t] = "idle"

\* ------------------------------------------------- the file-image memo
\* The provider after a successful warm-up, with an engine that exports the
\* tag-image functions: the scripts, the script directory, the attachments
\* and the files on disk change between draws.
CacheInit ==
    /\ renderer = 1
    /\ ready = TRUE
    /\ wpc = "done"
    /\ wlocal = 1
    /\ alive = TRUE
    /\ created = 1
    /\ released = [h \in RendererIds |-> 0]
    /\ crashed = FALSE
    /\ tagApi = TRUE
    /\ engRejects = {}
    /\ csriTags = {}
    /\ libassTags = {}
    /\ HelpersIdle
    /\ ass_track = NullTrack
    /\ tag_image_paths = <<>>
    /\ tag_images_dirty = TRUE
    /\ tag_image_script_dir = NoDir
    /\ attachment_tag_images = <<>>
    /\ file_tag_image_cache = [p \in Paths |-> NoImage]
    /\ fs = DefaultDisk
    /\ fsTouched = {}
    /\ memoUsed = {}
    /\ engPass = [h \in RendererIds |-> FALSE]
    /\ engTags = [h \in RendererIds |-> {}]
    /\ pc = [t \in Threads |-> "idle"]
    /\ ret = [t \in Threads |-> "bare"]
    /\ res = [t \in Threads |-> NullRenderer]
    /\ local = [t \in Threads |-> NullRenderer]
    /\ frame = [t \in Threads |-> NoDims]
    /\ rr = [t \in Threads |-> NoResult]
    /\ drawLog = [t \in Threads |-> <<>>]
    /\ mainBusy = NoThread
    /\ call = [t \in Threads |-> NewCall]
    /\ conc = [t \in Threads |-> {}]

CacheNext ==
    \/ Draw
    \/ \E t \in Threads, s \in Scripts, ok \in BOOLEAN : LoadSubtitles(t, s, ok)
    \/ \E t \in Threads, dir \in Dirs, atts \in AttLists : PrepareSubtitles(t, dir, atts)
    \/ \E loc \in AllLocations : FsChange(loc)

CacheSpec == CacheInit /\ [][CacheNext]_vars

\* A step that runs the registration pass of thread t.
PassStep(t) ==
    /\ pc[t] = "g_pass"
    /\ pc'[t] = "d_frame"
    /\ res[t] # NullRenderer
    /\ tagApi

\* C10: while the script directory is unchanged a memoized file image stays
\* in the memo, and a registration pass takes it from there: the path is not
\* looked up on disk and the image registered is the memoized one; a path
\* without a memo entry is looked up on disk; a PrepareSubtitles that changes
\* the script directory empties the memo.
C10_Theorem ==
    [][/\ \A t \in Threads :
            PassStep(t) =>
                \A i \in 1..Len(tag_image_paths) :
                    LET p == tag_image_paths[i]
                        m == file_tag_image_cache[p]
                    IN IF m # NoImage
                       THEN /\ p \notin fsTouched'
                            /\ p \in memoUsed'
                            /\ file_tag_image_cache'[p] = m
                            /\ \E e \in engTags'[res[t]] : e.key = m.key
                            /\ \A e \in engTags'[res[t]] :
                                  (e.key = m.key /\ e.img.src = "file") => e.img = m
                       ELSE /\ p \in fsTouched'
                            /\ p \notin memoUsed'
                            /\ file_tag_image_cache'[p] =
                                  decode_file_image(p, tag_image_script_dir, fs)
       /\ tag_image_script_dir' # tag_image_script_dir
            => \A p \in Paths : file_tag_image_cache'[p] = NoImage
       /\ tag_image_script_dir' = tag_image_script_dir
            => \A p \in Paths :
                  file_tag_image_cache[p] # NoImage
                      => file_tag_image_cache'[p] = file_tag_image_cache[p]
      ]_vars

C10_Witness ==
    \E t \in Threads, p \in Paths :
        /\ pc[t] = "d_frame"
        /\ p \in memoUsed
        /\ p \notin fsTouched
        /\ file_tag_image_cache[p].key \notin fs
        /\ decode_file_image(p, tag_image_script_dir, fs) # file_tag_image_cache[p]
        /\ \E e \in engTags[local[t]] : e.img = file_tag_image_cache[p]

\* ------------------------------------------------ the registration pass
\* Inputs of the registration pass: scripts, files on disk, registrations
\* the engine refuses, attachment lists.
RegScripts == {1, 5}
RegDisks ==
    {{}, {Raw(1), Raw(2)}, {Scanned(1, 2)}, {ZeroFile(Joined(1, 1)), Raw(1)},
     {Joined(1, 1), Raw(1)}}
RegRejects == {{}, {<<Raw(1), TRUE>>}, {<<AttKey(2), FALSE>>, <<Raw(2), FALSE>>}}
RegAttLists ==
    {<<>>, <<BadAttachment, 1>>, <<2, 1>>, <<BadAttachment, 3, 2>>, <<1, BadAttachment, 3>>}

\* The provider after a successful warm-up with a script loaded.
RegInit ==
    /\ renderer = 1
    /\ ready = TRUE
    /\ wpc = "done"
    /\ wlocal = 1
    /\ alive = TRUE
    /\ created = 1
    /\ released = [h \in RendererIds |-> 0]
    /\ crashed = FALSE
    /\ tagApi = TRUE
    /\ engRejects \in RegRejects
    /\ csriTags = {}
    /\ libassTags = {}
    /\ HelpersIdle
    /\ \E s \in RegScripts : ass_track = s /\ tag_image_paths = ScriptPaths(s)
    /\ tag_images_dirty = TRUE
    /\ tag_image_script_dir = NoDir
    /\ attachment_tag_images = <<>>
    /\ file_tag_image_cache = [p \in Paths |-> NoImage]
    /\ fs \in RegDisks
    /\ fsTouched = {}
    /\ memoUsed = {}
    /\ engPass = [h \in RendererIds |-> FALSE]
    /\ engTags = [h \in RendererIds |-> {}]
    /\ pc = [t \in Threads |-> "idle"]
    /\ ret = [t \in Threads |-> "bare"]
    /\ res = [t \in Threads |-> NullRenderer]
    /\ local = [t \in Threads |-> NullRenderer]
    /\ frame = [t \in Threads |-> NoDims]
    /\ rr = [t \in Threads |-> NoResult]
    /\ drawLog = [t \in Threads |-> <<>>]
    /\ mainBusy = NoThread
    /\ call = [t \in Threads |-> NewCall]
    /\ conc = [t \in Threads |-> {}]

RegNext ==
    \/ Draw
    \/ \E t \in Threads, s \in RegScripts, ok \in BOOLEAN : CsriLoadSubtitles(t, s, ok)
    \/ \E t \in Threads, dir \in Dirs, atts \in RegAttLists : PrepareSubtitles(t, dir, atts)

RegSpec == RegInit /\ [][RegNext]_vars

\* Thread t is in a DrawSubtitles whose registration pass has just run.
AfterPass(t) ==
    /\ pc[t] = "d_frame"
    /\ Len(drawLog[t]) = 2
    /\ drawLog[t][2] = <<"ass_clear_tag_images">>

\* The referenced paths of the loaded script for which the pass found no
\* file image.
NoFilePaths ==
    {p \in Paths : /\ \E i \in 1..Len(tag_image_paths) : tag_image_paths[i] = p
                   /\ file_tag_image_cache[p] = NoImage
                   /\ decode_file_image(p, tag_image_script_dir, fs) = NoImage}

\* The decoded attachments with the lower-cased basename of path p.
Matching(p) ==
    {a \in Attachments : /\ \E k \in 1..Len(attachment_tag_images) :
                              attachment_tag_images[k] = a
                         /\ AttBase(a) = PathBase(p)}

\* Key key is registered in form quoted with image img, or the engine
\* refuses that registration.
RegisteredAs(h, key, quoted, img) ==
    \/ <<key, quoted>> \in engRejects
    \/ [key |-> key, quoted |-> quoted, img |-> img] \in engTags[h]

\* What C11 says of the pass of LibassModSubtitlesProvider run by thread t.
FallbackRule(t) ==
    \A p \in NoFilePaths :
        IF path_is_absolute(p)
        THEN \A e \in engTags[local[t]] : e.key # Raw(p)
        ELSE IF Matching(p) = {}
        THEN \A e \in engTags[local[t]] : e.key # Raw(p)
        ELSE \E a \in Matching(p) :
                \A quoted \in BOOLEAN :
                    /\ RegisteredAs(local[t], Raw(p), quoted, AttachmentImage(a))
                    /\ \E b \in Matching(p) :
                          RegisteredAs(local[t], AttKey(a), quoted, AttachmentImage(b))

UpperCase == <<"A", "B", "C", "D", "E", "F", "G", "H", "I", "J", "K", "L", "M",
               "N", "O", "P", "Q", "R", "S", "T", "U", "V", "W", "X", "Y", "Z">>
LowerCase == <<"a", "b", "c", "d", "e", "f", "g", "h", "i", "j", "k", "l", "m",
               "n", "o", "p", "q", "r", "s", "t", "u", "v", "w", "x", "y", "z">>

img_ascii_tolower(c) ==
    IF \E i \in DOMAIN UpperCase : UpperCase[i] = c
    THEN LowerCase[CHOOSE i \in DOMAIN UpperCase : UpperCase[i] = c]
    ELSE c

img_starts_with_icase(text, prefix) ==
    \A i \in 1..Len(prefix) : i <= Len(text) /\ img_ascii_tolower(text[i]) = prefix[i]

SetMin(S) == CHOOSE x \in S : \A y \in S : x <= y
SetMax(S) == CHOOSE x \in S : \A y \in S : y <= x

\* std::isspace in the "C" locale.
isspace(c) == c \in {" ", "\t", "\n", "\r"}
IsBlank(c) == c \in {" ", "\t"}

\* The first position at or after j whose character is not a blank (resp. is in
\* stop), Len(d) + 1 when there is none: the while (j < len && ...) ++j loops.
SkipBlanks(d, j) ==
    LET hit == {k \in j..Len(d) : ~IsBlank(d[k])}
    IN  IF hit = {} THEN Len(d) + 1 ELSE SetMin(hit)
ScanTo(d, j, stop) ==
    LET hit == {k \in j..Len(d) : d[k] \in stop}
    IN  IF hit = {} THEN Len(d) + 1 ELSE SetMin(hit)

trim_copy(str) ==
    LET keep == {k \in 1..Len(str) : ~isspace(str[k])}
    IN  IF keep = {} THEN <<>> ELSE SubSeq(str, SetMin(keep), SetMax(keep))

\* The blank-only trimming collect_img_paths does on lines and section names.
TrimBlanks(str) ==
    LET keep == {k \in 1..Len(str) : ~IsBlank(str[k])}
    IN  IF keep = {} THEN <<>> ELSE SubSeq(str, SetMin(keep), SetMax(keep))

IsQuoted(p) ==
    /\ Len(p) >= 2
    /\ \/ p[1] = "\"" /\ p[Len(p)] = "\""
       \/ p[1] = "'" /\ p[Len(p)] = "'"

strip_matching_quotes_NoRetrim(p) ==
    LET t == trim_copy(p)
    IN  IF IsQuoted(t) THEN SubSeq(t, 2, Len(t) - 1) ELSE t
strip_matching_quotes(p) ==
    LET t == trim_copy(p)
    IN  trim_copy(IF IsQuoted(t) THEN SubSeq(t, 2, Len(t) - 1) ELSE t)

add_double_quotes(p) == <<"\"">> \o p \o <<"\"">>

InSeq(x, s) == \E k \in DOMAIN s : s[k] = x

\* One iteration of the scanning loop, at position i of d (counted from 1):
\* the path it adds, <<>> when it adds none.
ImgArgAt(d, i) ==
    LET len == Len(d)
        j1  == IF i + 1 <= len /\ d[i + 1] \in {"1", "2", "3", "4"} THEN i + 2 ELSE i + 1
    IN  IF d[i] # "\\" \/ j1 + 2 > len THEN <<>>
        ELSE IF <<d[j1], d[j1 + 1], d[j1 + 2]>> # <<"i", "m", "g">> THEN <<>>
        ELSE LET j2 == SkipBlanks(d, j1 + 3)
             IN  IF j2 > len \/ d[j2] # "(" THEN <<>>
                 ELSE LET j3 == SkipBlanks(d, j2 + 1)
                      IN  IF j3 > len THEN <<>>
                          ELSE LET inQuotes == d[j3] \in {"\"", "'"}
                                   start == IF inQuotes THEN j3 + 1 ELSE j3
                                   end   == IF inQuotes
                                            THEN ScanTo(d, j3 + 1, {d[j3]})
                                            ELSE ScanTo(d, j3, {",", ")"})
                               IN  IF end <= start THEN <<>>
                                   ELSE strip_matching_quotes(SubSeq(d, start, end - 1))

\* LibassSubtitlesProvider's loop body: the argument always runs to the next
\* ',' or ')', quotes or not.
LibassImgArgAt(d, i) ==
    LET len == Len(d)
        j1  == IF i + 1 <= len /\ d[i + 1] \in {"1", "2", "3", "4"} THEN i + 2 ELSE i + 1
    IN  IF d[i] # "\\" \/ j1 + 2 > len THEN <<>>
        ELSE IF <<d[j1], d[j1 + 1], d[j1 + 2]>> # <<"i", "m", "g">> THEN <<>>
        ELSE LET j2 == SkipBlanks(d, j1 + 3)
             IN  IF j2 > len \/ d[j2] # "(" THEN <<>>
                 ELSE LET start == SkipBlanks(d, j2 + 1)
                          end   == ScanTo(d, start, {",", ")"})
                      IN  IF end <= start THEN <<>>
                          ELSE strip_matching_quotes(SubSeq(d, start, end - 1))

\* collect_img_paths_from_span(data, len, paths, seen) from position i on; seen
\* holds exactly the strings of paths.
RECURSIVE collect_img_paths_from_span(_, _, _)
collect_img_paths_from_span(d, i, acc) ==
    IF i + 4 > Len(d) THEN acc
    ELSE LET p == ImgArgAt(d, i)
         IN  collect_img_paths_from_span(d, i + 1,
                 IF p # <<>> /\ ~InSeq(p, acc) THEN Append(acc, p) ELSE acc)

\* CSRISubtitlesProvider's collect_img_paths: the same loop without seen.
RECURSIVE CsriCollectImgPaths(_, _, _)
CsriCollectImgPaths(d, i, acc) ==
    IF i + 4 > Len(d) THEN acc
    ELSE LET p == ImgArgAt(d, i)
         IN  CsriCollectImgPaths(d, i + 1, IF p # <<>> THEN Append(acc, p) ELSE acc)

\* LibassSubtitlesProvider's collect_img_paths.
RECURSIVE LibassCollectImgPaths(_, _, _)
LibassCollectImgPaths(d, i, acc) ==
    IF i + 4 > Len(d) THEN acc
    ELSE LET p == LibassImgArgAt(d, i)
         IN  LibassCollectImgPaths(d, i + 1, IF p # <<>> THEN Append(acc, p) ELSE acc)

\* collect_img_paths of LibassModSubtitlesProvider from the line starting at
\* line_start on.
RECURSIVE CollectLines_AllSections(_, _, _, _, _)
RECURSIVE CollectLines(_, _, _, _, _)
CollectLines_AllSections(d, line_start, saw_section, in_events, acc) ==
    IF line_start > Len(d) + 1 THEN acc
    ELSE LET i    == ScanTo(d, line_start, {"\n"})
             end  == IF i > line_start /\ d[i - 1] = "\r" THEN i - 1 ELSE i
             line == TrimBlanks(SubSeq(d, line_start, end - 1))
         IN  IF line = <<>> THEN CollectLines_AllSections(d, i + 1, saw_section, in_events, acc)
             ELSE IF line[1] = "[" /\ line[Len(line)] = "]"
             THEN CollectLines_AllSections(d, i + 1, TRUE, TRUE, acc)
             ELSE IF ~img_starts_with_icase(line, <<"d", "i", "a", "l", "o", "g", "u", "e", ":">>)
             THEN CollectLines_AllSections(d, i + 1, saw_section, in_events, acc)
             ELSE CollectLines_AllSections(d, i + 1, saw_section, in_events,
                      collect_img_paths_from_span(line, 1, acc))
CollectLines(d, line_start, saw_section, in_events, acc) ==
    IF line_start > Len(d) + 1 THEN acc
    ELSE LET i    == ScanTo(d, line_start, {"\n"})
             end  == IF i > line_start /\ d[i - 1] = "\r" THEN i - 1 ELSE i
             line == TrimBlanks(SubSeq(d, line_start, end - 1))
             sec  == TrimBlanks(SubSeq(line, 2, Len(line) - 1))
         IN  IF line = <<>> THEN CollectLines(d, i + 1, saw_section, in_events, acc)
             ELSE IF line[1] = "[" /\ line[Len(line)] = "]"
             THEN CollectLines(d, i + 1, TRUE,
                      Len(sec) = 6 /\ img_starts_with_icase(sec, <<"e", "v", "e", "n", "t", "s">>),
                      acc)
             ELSE IF saw_section /\ ~in_events
             THEN CollectLines(d, i + 1, saw_section, in_events, acc)
             ELSE IF ~img_starts_with_icase(line, <<"d", "i", "a", "l", "o", "g", "u", "e", ":">>)
             THEN CollectLines(d, i + 1, saw_section, in_events, acc)
             ELSE CollectLines(d, i + 1, saw_section, in_events,
                      collect_img_paths_from_span(line, 1, acc))

collect_img_paths(d) == CollectLines(d, 1, FALSE, TRUE, <<>>)

\* ------------------------------------------------------- tag-image extraction
\* The scripts the extractors are run on.  A tag script is one Dialogue: line
\* carrying up to MaxTags image tags; a line script is up to MaxLines lines,
\* the k-th of which (when it carries a tag) names the path LinePath[k].
MaxTags == 3
MaxLines == 3

\* chars: the written tag; value: the argument its author meant; kind: whether
\* it is a well-formed tag, not a tag at all, a tag with an empty argument or a
\* tag whose argument is never closed.
TagTable == <<
    [chars |-> <<"\\", "i", "m", "g", "(", "a", ")">>,
     value |-> <<"a">>, kind |-> "valid"],
    [chars |-> <<"\\", "2", "i", "m", "g", "(", "\"", "a", "\"", ")">>,
     value |-> <<"a">>, kind |-> "valid"],
    [chars |-> <<"\\", "i", "m", "g", "(", "b", ")">>,
     value |-> <<"b">>, kind |-> "valid"],
    [chars |-> <<"\\", "4", "i", "m", "g", " ", "(", " ", "'", "b", "'", " ", ")">>,
     value |-> <<"b">>, kind |-> "valid"],
    [chars |-> <<"\\", "i", "m", "g", "(", "\"", " ", "a", " ", "\"", ",", "1", ")">>,
     value |-> <<"a">>, kind |-> "valid"],
    [chars |-> <<"\\", "i", "m", "g", "(", "c", " ", "d", ",", "1", ")">>,
     value |-> <<"c", " ", "d">>, kind |-> "valid"],
    [chars |-> <<"\\", "5", "i", "m", "g", "(", "a", ")">>,
     value |-> <<>>, kind |-> "invalid"],
    [chars |-> <<"\\", "i", "m", "x", "(", "b", ")">>,
     value |-> <<>>, kind |-> "invalid"],
    [chars |-> <<"\\", "i", "m", "g", "(", ")">>,
     value |-> <<>>, kind |-> "empty"],
    [chars |-> <<"\\", "1", "i", "m", "g", "(", " ", "\"", "\"", " ", ")">>,
     value |-> <<>>, kind |-> "empty"],
    [chars |-> <<"\\", "i", "m", "g", "(", "\"", "b">>,
     value |-> <<>>, kind |-> "unterminated"],
    [chars |-> <<"\\", "3", "i", "m", "g", "(", "a">>,
     value |-> <<>>, kind |-> "unterminated"]
  >>
TagIds == 1..Len(TagTable)

LinePath == <<"a", "b", "c", "d">>
\* The lines of a line script; Hole marks where the line's path goes.
Hole == "%"
LineTable == <<
    [chars |-> <<"[", "E", "v", "e", "n", "t", "s", "]">>,
     kind |-> "events"],
    [chars |-> <<"[", " ", "e", "V", "E", "N", "T", "S", " ", "]", "\r">>,
     kind |-> "events"],
    [chars |-> <<"[", "V", "4", "+", " ", "S", "t", "y", "l", "e", "s", "]">>,
     kind |-> "other"],
    [chars |-> <<"[", "E", "v", "e", "n", "t", "s", "2", "]">>,
     kind |-> "other"],
    [chars |-> <<"D", "i", "a", "l", "o", "g", "u", "e", ":", " ", "{", "\\", "i", "m", "g", "(", "%", ")", "}">>,
     kind |-> "dialogue"],
    [chars |-> <<"\t", "d", "i", "a", "l", "o", "g", "u", "e", ":", "\\", "1", "i", "m", "g", "(", "\"", "%", "\"", ")", "x", " ", "\r">>,
     kind |-> "dialogue"],
    [chars |-> <<"C", "o", "m", "m", "e", "n", "t", ":", " ", "{", "\\", "i", "m", "g", "(", "%", ")", "}">>,
     kind |-> "text"],
    [chars |-> <<"S", "t", "y", "l", "e", ":", " ", "\\", "i", "m", "g", "(", "%", ")">>,
     kind |-> "text"]
  >>
LineIds == 1..Len(LineTable)
DialoguePrefix == <<"D", "i", "a", "l", "o", "g", "u", "e", ":", " ">>

RECURSIVE Concat(_)
Concat(ss) == IF ss = <<>> THEN <<>> ELSE Head(ss) \o Concat(Tail(ss))

SeqsUpTo(S, n) == UNION {[1..m -> S] : m \in 1..n}

LineChars(id, k) ==
    [n \in DOMAIN LineTable[id].chars |->
        IF LineTable[id].chars[n] = Hole THEN LinePath[k] ELSE LineTable[id].chars[n]]

\* The bytes of a script: the tags after "Dialogue: ", or the lines joined by
\* line feeds.
Bytes(w) ==
    IF w.form = "tags"
    THEN DialoguePrefix \o Concat([k \in DOMAIN w.ids |-> TagTable[w.ids[k]].chars])
    ELSE Concat([k \in DOMAIN w.ids |->
                    LineChars(w.ids[k], k) \o (IF k < Len(w.ids) THEN <<"\n">> ELSE <<>>)])

ExtScripts ==
    {[form |-> "tags", ids |-> ids] : ids \in SeqsUpTo(TagIds, MaxTags)}
    \cup {[form |-> "lines", ids |-> ids] : ids \in SeqsUpTo(LineIds, MaxLines)}

ExtInit ==
    /\ ProviderInit
    /\ written \in ExtScripts
    /\ data = Bytes(written)
    /\ callee = "none"
    /\ collected = <<>>
    /\ quotedPath = <<>>
    /\ BlendIdle

\* LibassModSubtitlesProvider::LoadSubtitles' call
\* tag_image_paths = collect_img_paths(data, len).
CollectImgPaths ==
    /\ callee = "none"
    /\ written # <<>>
    /\ callee' = "libassmod"
    /\ collected' = collect_img_paths(data)
    /\ UNCHANGED <<providerVars, written, data, quotedPath, blendVars>>

\* CSRISubtitlesProvider::RegisterTagImages' call collect_img_paths(data, len).
CsriCollect ==
    /\ callee = "none"
    /\ written # <<>>
    /\ callee' = "csri"
    /\ collected' = CsriCollectImgPaths(data, 1, <<>>)
    /\ UNCHANGED <<providerVars, written, data, quotedPath, blendVars>>

\* LibassSubtitlesProvider::LoadSubtitles' call collect_img_paths(data, len).
LibassCollect ==
    /\ callee = "none"
    /\ written # <<>>
    /\ callee' = "libass"
    /\ collected' = LibassCollectImgPaths(data, 1, <<>>)
    /\ UNCHANGED <<providerVars, written, data, quotedPath, blendVars>>

ExtNext == CollectImgPaths \/ CsriCollect \/ LibassCollect
ExtSpec == ExtInit /\ [][ExtNext]_vars

\* What the author of a tag script meant it to reference: the argument of each
\* well-formed tag, in order (with repetitions).
MeantPaths(ids) ==
    SelectSeq([k \in DOMAIN ids |-> TagTable[ids[k]].value], LAMBDA v : v # <<>>)

RECURSIVE FirstSeen(_, _)
FirstSeen(s, acc) ==
    IF s = <<>> THEN acc
    ELSE FirstSeen(Tail(s), IF InSeq(Head(s), acc) THEN acc ELSE Append(acc, Head(s)))

NoDuplicates(s) == \A i, j \in DOMAIN s : s[i] = s[j] => i = j

TagKinds(ids) == {TagTable[ids[k]].kind : k \in DOMAIN ids}

\* Line k of a line script is scanned: no section header precedes it, or the
\* last header before it names Events.
Headers(ids, k) == {h \in 1..(k - 1) : LineTable[ids[h]].kind \in {"events", "other"}}
InScope(ids, k) ==
    \/ Headers(ids, k) = {}
    \/ LineTable[ids[SetMax(Headers(ids, k))]].kind = "events"

\* C12: on a script whose tags are all closed, the extractors of
\* LibassModSubtitlesProvider and LibassSubtitlesProvider return the argument
\* of every well-formed \img / \1img..\4img tag, unquoted and trimmed, in
\* order of first occurrence, and no string twice.
C12_Original ==
    (callee \in {"libassmod", "libass"} /\ written.form = "tags"
        /\ "unterminated" \notin TagKinds(written.ids))
    => /\ collected = FirstSeen(MeantPaths(written.ids), <<>>)
       /\ NoDuplicates(collected)

\* C13: strict-mode extraction returns a path only from a Dialogue: line that
\* lies before every section header or under a header naming Events (in any
\* letter case); the path of a tagged line under another section is never in
\* the result.
C13_Theorem ==
    (callee = "libassmod" /\ written.form = "lines")
    => /\ \A n \in DOMAIN collected :
            \E k \in DOMAIN written.ids :
                /\ collected[n] = <<LinePath[k]>>
                /\ LineTable[written.ids[k]].kind = "dialogue"
                /\ InScope(written.ids, k)
       /\ \A k \in DOMAIN written.ids :
            ~InScope(written.ids, k) => ~InSeq(<<LinePath[k]>>, collected)

\* A Dialogue: line before any header, then [V4+ Styles], then a tagged
\* Dialogue: line under it: only the first line's path is returned.
C13_Witness ==
    /\ callee = "libassmod"
    /\ written = [form |-> "lines", ids |-> <<5, 3, 5>>]
    /\ collected = <<<<"a">>>>

\* C14: a tag whose argument is empty or never closed adds nothing: the result
\* is what the well-formed tags of the script give (without repetitions in
\* LibassModSubtitlesProvider, with them in CSRISubtitlesProvider).
C14_Original ==
    /\ (callee = "libassmod" /\ written.form = "tags")
        => collected = FirstSeen(MeantPaths(written.ids), <<>>)
    /\ (callee = "csri" /\ written.form = "tags")
        => collected = MeantPaths(written.ids)

\* ------------------------------------------------- strip_matching_quotes
MaxPathLen == 5
PathChars == {"\"", "'", " ", "a"}
StripInputs == {<<>>} \cup SeqsUpTo(PathChars, MaxPathLen)

StripInit ==
    /\ ProviderInit
    /\ callee = "none"
    /\ written = <<>>
    /\ data \in StripInputs
    /\ collected = <<>>
    /\ quotedPath = data
    /\ BlendIdle

\* path = strip_matching_quotes(path), as RegisterTagImages does to a path that
\* collect_img_paths has already stripped once.
StripMatchingQuotes ==
    /\ callee \in {"none", "strip_once"}
    /\ callee' = IF callee = "none" THEN "strip_once" ELSE "strip_twice"
    /\ quotedPath' = strip_matching_quotes(quotedPath)
    /\ UNCHANGED <<providerVars, written, data, collected, blendVars>>

StripNext == StripMatchingQuotes
StripSpec == StripInit /\ [][StripNext]_vars

\* C15 as stated: a second application of strip_matching_quotes never changes
\* the result of the first.
C15_Original == [][callee = "strip_once" => quotedPath' = quotedPath]_vars

\* C15: a second application of strip_matching_quotes leaves the result of the
\* first unchanged exactly when that result is not itself wrapped in a matching
\* pair of quotes; otherwise it removes one more pair.
C15_Theorem ==
    [][callee = "strip_once" =>
        /\ (quotedPath' = quotedPath) <=> ~IsQuoted(quotedPath)
        /\ IsQuoted(quotedPath) =>
              quotedPath' = trim_copy(SubSeq(quotedPath, 2, Len(quotedPath) - 1))]_vars

\* ""a"" has been stripped twice: the first call gave "a", the second a.
C15_Witness ==
    /\ callee = "strip_twice"
    /\ data = <<"\"", "\"", "a", "\"", "\"">>
    /\ quotedPath = <<"a">>

\* ------------------------------------------------------------ compositing
\* The transform_pixels lambda of the RGBA branch; the static_cast keeps the
\* low eight bits of each sum.
BlendRgba_ByteCopy(px, src) ==
    LET inv_alpha == 255 - src[4]
    IN  <<(src[1] + (px[1] * inv_alpha) \div 255) % 256,
          (src[2] + (px[2] * inv_alpha) \div 255) % 256,
          (src[3] + (px[3] * inv_alpha) \div 255) % 256,
          0>>
\* Variant of BlendRgba: a sum above 255 is clamped to 255.
BlendRgba_Saturating(px, src) ==
    LET inv_alpha == 255 - src[4]
        clamp(v) == IF v > 255 THEN 255 ELSE v
    IN  <<clamp(src[3] + (px[1] * inv_alpha) \div 255),
          clamp(src[2] + (px[2] * inv_alpha) \div 255),
          clamp(src[1] + (px[3] * inv_alpha) \div 255),
          0>>

BlendRgba(px, src) ==
    LET inv_alpha == 255 - src[4]
    IN  <<(src[3] + (px[1] * inv_alpha) \div 255) % 256,
          (src[2] + (px[2] * inv_alpha) \div 255) % 256,
          (src[1] + (px[3] * inv_alpha) \div 255) % 256,
          0>>

\* The macros _r, _g, _b and _a on a 32-bit colour.
ChanR(c) == c \div 16777216
ChanG(c) == (c \div 65536) % 256
ChanB(c) == (c \div 256) % 256
ChanA(c) == c % 256
Packed(r, g, b, a) == ((r * 256 + g) * 256 + b) * 256 + a

\* The transform_pixels lambda of the mask branch.
BlendMask_AlphaAsOpacity(px, mask, c) ==
    LET k  == (mask * ChanA(c)) \div 255
        ck == 255 - k
    IN  <<((k * ChanB(c) + ck * px[1]) \div 255) % 256,
          ((k * ChanG(c) + ck * px[2]) \div 255) % 256,
          ((k * ChanR(c) + ck * px[3]) \div 255) % 256,
          0>>
BlendMask(px, mask, c) ==
    LET opacity == 255 - ChanA(c)
        k  == (mask * opacity) \div 255
        ck == 255 - k
    IN  <<((k * ChanB(c) + ck * px[1]) \div 255) % 256,
          ((k * ChanG(c) + ck * px[2]) \div 255) % 256,
          ((k * ChanR(c) + ck * px[3]) \div 255) % 256,
          0>>

\* The pixels and colours the blends are run on.
FrameLevels == {9, 200, 255}
FramePixels == {<<b, g, r, a>> : b \in {9, 200}, g \in FrameLevels, r \in FrameLevels, a \in {0, 255}}
RgbaPixels  == {<<r, g, b, a>> : r \in {0, 10, 128, 255}, g \in {0, 20}, b \in {0, 30, 200},
                                 a \in {0, 1, 128, 254, 255}}
MaskPixels  == {<<m>> : m \in {0, 1, 128, 255}}
\* Colours are kept below 2^31, the largest integers the checker computes with.
MaskColors  == {Packed(r, g, b, a) : r \in {1, 127}, g \in {2, 255}, b \in {3, 0}, a \in {0, 127, 255}}

BlendInit ==
    /\ ProviderInit
    /\ tagApi = TRUE
    /\ callee = "none"
    /\ written = <<>>
    /\ data = <<>>
    /\ collected = <<>>
    /\ quotedPath = <<>>
    /\ frame_px \in FramePixels
    /\ frame_before = frame_px
    /\ \/ src_px \in RgbaPixels /\ color = 0
       \/ src_px \in MaskPixels /\ color \in MaskColors

\* DrawSubtitles blends one pixel of an RGBA tile onto the frame.
DrawRgbaPixel ==
    /\ callee = "none"
    /\ Len(src_px) = 4
    /\ callee' = "rgba"
    /\ frame_before' = frame_px
    /\ frame_px' = BlendRgba(frame_px, src_px)
    /\ UNCHANGED <<providerVars, textVars, src_px, color>>

\* DrawSubtitles blends one pixel of a mask tile onto the frame.
DrawMaskPixel ==
    /\ callee = "none"
    /\ Len(src_px) = 1
    /\ callee' = "mask"
    /\ frame_before' = frame_px
    /\ frame_px' = BlendMask(frame_px, src_px[1], color)
    /\ UNCHANGED <<providerVars, textVars, src_px, color>>

BlendNext == DrawRgbaPixel \/ DrawMaskPixel
BlendSpec == BlendInit /\ [][BlendNext]_vars

Premultiplied(src) == src[1] <= src[4] /\ src[2] <= src[4] /\ src[3] <= src[4]

\* C16: blending a premultiplied RGBA pixel writes B = source B + old B *
\* (255 - alpha) / 255, G and R likewise (integer division, source R, G, B
\* going to destination R, G, B of the BGRA pixel) and alpha 0; a source pixel
\* of alpha 255 replaces the colour exactly.
C16_Theorem ==
    (callee = "rgba" /\ Premultiplied(src_px))
    => /\ frame_px[1] = src_px[3] + (frame_before[1] * (255 - src_px[4])) \div 255
       /\ frame_px[2] = src_px[2] + (frame_before[2] * (255 - src_px[4])) \div 255
       /\ frame_px[3] = src_px[1] + (frame_before[3] * (255 - src_px[4])) \div 255
       /\ frame_px[4] = 0
       /\ src_px[4] = 255 => frame_px = <<src_px[3], src_px[2], src_px[1], 0>>

\* (R=10, G=20, B=30, A=255) over (B=200, G=200, R=200) gave (30, 20, 10, 0).
C16_Witness ==
    /\ callee = "rgba"
    /\ src_px = <<10, 20, 30, 255>>
    /\ frame_before[1] = 200 /\ frame_before[2] = 200 /\ frame_before[3] = 200
    /\ frame_px = <<30, 20, 10, 0>>

\* C17: blending a mask byte m of a tile of colour c writes, with opacity =
\* 255 - (c & 0xFF), k = m * opacity / 255 and r, g, b the bytes 24-31, 16-23
\* and 8-15 of c, each channel as (k * tile channel + (255 - k) * old channel)
\* / 255 and alpha 0; with m = 255 and alpha byte 0 the tile colour replaces
\* the destination.
C17_Theorem ==
    callee = "mask"
    => LET opacity == 255 - (color % 256)
           r == (color \div 16777216) % 256
           g == (color \div 65536) % 256
           b == (color \div 256) % 256
           k == (src_px[1] * opacity) \div 255
       IN  /\ frame_px[1] = (k * b + (255 - k) * frame_before[1]) \div 255
           /\ frame_px[2] = (k * g + (255 - k) * frame_before[2]) \div 255
           /\ frame_px[3] = (k * r + (255 - k) * frame_before[3]) \div 255
           /\ frame_px[4] = 0
           /\ (src_px[1] = 255 /\ color % 256 = 0) => frame_px = <<b, g, r, 0>>

\* Mask 255 of colour RGB (1, 2, 3), alpha byte 0, over (B=9, G=9, R=9) gave
\* (3, 2, 1, 0).
C17_Witness ==
    /\ callee = "mask"
    /\ src_px = <<255>>
    /\ color = Packed(1, 2, 3, 0)
    /\ frame_before[1] = 9 /\ frame_before[2] = 9 /\ frame_before[3] = 9
    /\ frame_px = <<3, 2, 1, 0>>

\* ------------------------------------------------ failures of one image
\* The referenced paths for which the pass can obtain an image: the extension
\* is recognised and there is a file image or (for a non-absolute path) a
\* decoded attachment of the same basename.
Obtainable(paths) ==
    SelectSeq(paths, LAMBDA p :
        /\ parse_tag_image_format(p)
        /\ \/ decode_file_image(p, tag_image_script_dir, fs) # NoImage
           \/ /\ ~path_is_absolute(p)
              /\ AttachmentByName(attachment_tag_images, PathBase(p)) # NoImage)

\* C18: an image that cannot be obtained, or a registration the engine
\* refuses, is the only thing missing after a pass: the engine holds what a
\* pass over the obtainable paths and the decoded attachments registers on an
\* engine that refuses nothing, minus the refused registrations; the pass
\* raises no error and leaves the dirty flag cleared; and PrepareSubtitles
\* keeps every attachment that decodes, whatever fails around it.
C18_Theorem ==
    /\ [](\A t \in Threads :
            AfterPass(t) =>
                /\ ~crashed
                /\ tag_images_dirty = FALSE
                /\ engTags[local[t]] =
                      {e \in RegistrationPass(Obtainable(tag_image_paths),
                                              tag_image_script_dir, fs,
                                              attachment_tag_images,
                                              [p \in Paths |-> NoImage], {}).reg :
                          <<e.key, e.quoted>> \notin engRejects})
    /\ [][attachment_tag_images' # attachment_tag_images =>
            \E atts \in RegAttLists :
                attachment_tag_images' = SelectSeq(atts, LAMBDA a : a \in Attachments)]_vars

\* A pass over the paths 2, 3, 1 with attachments 1 and 3 kept from a list
\* with an undecodable entry between them: path 3 has an unrecognised
\* extension, the file of path 1 has no pixels, the engine refuses the quoted
\* key of path 1, and attachment 3 is registered all the same.
C18_Witness ==
    \E t \in Threads :
        /\ AfterPass(t)
        /\ tag_image_paths = <<2, 3, 1>>
        /\ attachment_tag_images = <<1, 3>>
        /\ ZeroFile(Joined(1, 1)) \in fs
        /\ tag_image_script_dir = 1
        /\ engRejects = {<<Raw(1), TRUE>>}
        /\ \A quoted \in BOOLEAN :
              [key |-> AttKey(3), quoted |-> quoted, img |-> AttachmentImage(3)]
                  \in engTags[local[t]]
        /\ \A e \in engTags[local[t]] : ~(e.key = Raw(1) /\ e.quoted)

\* ------------------------------------------- LibassSubtitlesProvider's pass
\* decode_file_image of subtitles_provider_libass.cpp: the path as written is
\* the only location tried.
LibassFileImage(p, disk) ==
    IF parse_tag_image_format(p) /\ Raw(p) \in disk
    THEN FileImage(p, Raw(p))
    ELSE NoImage

\* First loop of LibassSubtitlesProvider::RegisterTagImages: each attachment
\* under image.key.
RECURSIVE LibassRegisterAttachments(_, _, _, _)
LibassRegisterAttachments(atts, i, reg, rej) ==
    IF i > Len(atts) THEN reg
    ELSE LibassRegisterAttachments(atts, i + 1,
             register_key(reg, AttKey(atts[i]), FALSE, AttachmentImage(atts[i]), rej), rej)

\* Second loop: each referenced path under raw_path, from the attachment of
\* its basename when there is one, else from the file.
RECURSIVE LibassRegisterPaths(_, _, _, _, _, _)
LibassRegisterPaths(paths, i, reg, disk, atts, rej) ==
    IF i > Len(paths) THEN reg
    ELSE LET p   == paths[i]
             att == AttachmentByName(atts, PathBase(p))
             img == IF att # NoImage THEN att ELSE LibassFileImage(p, disk)
         IN  LibassRegisterPaths(paths, i + 1,
                 IF parse_tag_image_format(p) /\ img # NoImage
                 THEN register_key(reg, Raw(p), FALSE, img, rej)
                 ELSE reg,
                 disk, atts, rej)

\* LibassSubtitlesProvider::RegisterTagImages on the same script, attachments
\* and disk.
LibassRegisterTagImages(t) ==
    /\ CanCall(t)
    /\ libassTags' = LibassRegisterPaths(tag_image_paths, 1,
                         LibassRegisterAttachments(attachment_tag_images, 1, {}, engRejects),
                         fs, attachment_tag_images, engRejects)
    /\ UNCHANGED <<sharedVars, workerVars, alive, created, released, crashed, tagApi,
                   engRejects, csriTags, helperVars, provVars, cacheVars, engVars, thrVars,
                   mainBusy, histVars>>

KeyNext ==
    \/ Draw
    \/ \E t \in Threads : LibassRegisterTagImages(t)
    \/ \E t \in Threads, dir \in Dirs, atts \in RegAttLists : PrepareSubtitles(t, dir, atts)
KeySpec == RegInit /\ [][KeyNext]_vars

\* Every registration in reg has its twin: the same key and pixels in the
\* other form.
BothForms(reg) ==
    \A e \in reg : [key |-> e.key, quoted |-> ~e.quoted, img |-> e.img] \in reg

\* C19: after a registration pass every registered image is registered under
\* its bare key and under the double-quoted key; none is registered under one
\* form only.
C19_Original ==
    /\ \A t \in Threads : AfterPass(t) => BothForms(engTags[local[t]])
    /\ BothForms(libassTags)

\* --------------------------------------------- the handle and the flag
\* C20: the warm-up task stores the handle, then sets the flag, and writes
\* neither again; the flag is never cleared and the handle changes afterwards
\* only inside Reinitialize; so a thread that sees the flag set and takes the
\* handle takes the stored one (or the one Reinitialize put in its place).
C20_Theorem ==
    /\ [](/\ wpc \in {"queued", "inited"} => ~ready /\ renderer = NullRenderer
          /\ wpc = "stored" => ~ready /\ renderer = wlocal
          /\ ready => wpc \in {"flagged", "done"})
    /\ [][/\ (~ready /\ ready') => wpc = "stored" /\ renderer' = renderer /\ renderer = wlocal
          /\ ready => ready'
          /\ renderer' # renderer =>
                \/ wpc = "inited" /\ wpc' = "stored" /\ renderer' = wlocal /\ ~ready
                \/ ready /\ \E t \in Threads : pc[t] = "ri_init"
          /\ \A t \in Threads :
                (ready /\ res'[t] # res[t]) => res'[t] = renderer /\ renderer' = renderer]_vars

\* A thread other than the primary one has finished a renderer() call that
\* found the flag set, and holds the handle the task stored.
C20_Witness ==
    \E t \in Threads \ {MainThread} :
        /\ ready
        /\ wlocal # NullRenderer
        /\ renderer = wlocal
        /\ pc[t] = "idle"
        /\ ~call[t].ran
        /\ conc[t] = {}
        /\ res[t] = wlocal

\* ------------------------------------------------- one live renderer
\* The renderers ass_renderer_init has returned and ass_renderer_done has not
\* been called on.
Unreleased == {h \in RendererIds : h <= created /\ released[h] = 0}

\* C21: no state has two unreleased renderers; Reinitialize creates the new
\* renderer only after releasing the one the handle designates; and outside
\* Reinitialize the stored handle of a living provider is null or designates
\* an unreleased renderer.
C21_Theorem ==
    /\ [](Cardinality(Unreleased) <= 1)
    /\ []((alive /\ \A t \in Threads : pc[t] \notin ReinitPcs) =>
            (renderer = NullRenderer \/ released[renderer] = 0))
    /\ [][(created' > created /\ \E t \in Threads : pc[t] = "ri_init") =>
            /\ renderer # NullRenderer => released[renderer] >= 1
            /\ Unreleased = {}
            /\ renderer' = created']_vars

\* Reinitialize has returned after replacing renderer 1 by renderer 2.
C21_Witness ==
    /\ alive
    /\ \A t \in Threads : pc[t] = "idle"
    /\ created = 2
    /\ renderer = 2
    /\ released[1] = 1
    /\ released[2] = 0

\* ------------------------------------------------------ first writer wins
\* No key string is bound to two images.
OneImagePerKey(reg) ==
    \A e1, e2 \in reg : (e1.key = e2.key /\ e1.quoted = e2.quoted) => e1.img = e2.img

\* The image the pass tries first for the key of referenced path p: the
\* attachment of that very key if one was decoded, else the file image, else
\* the attachment of p's basename.
FirstImageFor(p) ==
    LET own  == {a \in Attachments : AttKey(a) = Raw(p)
                                     /\ InSeq(a, attachment_tag_images)}
        file == decode_file_image(p, tag_image_script_dir, fs)
        att  == AttachmentByName(attachment_tag_images, PathBase(p))
    IN  IF own # {} THEN AttachmentImage(CHOOSE a \in own : TRUE)
        ELSE IF file # NoImage THEN file
        ELSE IF path_is_absolute(p) THEN NoImage
        ELSE att

\* C22: within a pass a key string is bound at most once, to the image of the
\* first attempt: the attachments, registered first, keep their keys, and the
\* key of a referenced path stays with the first image tried for it; later
\* attempts for a registered key change nothing.
C22_Theorem ==
    /\ OneImagePerKey(csriTags)
    /\ \A t \in Threads :
          AfterPass(t) =>
            /\ OneImagePerKey(engTags[local[t]])
            /\ \A k \in DOMAIN attachment_tag_images, quoted \in BOOLEAN :
                  RegisteredAs(local[t], AttKey(attachment_tag_images[k]), quoted,
                               AttachmentImage(attachment_tag_images[k]))
            /\ \A p \in Paths, quoted \in BOOLEAN :
                  (InSeq(p, tag_image_paths) /\ FirstImageFor(p) # NoImage)
                  => RegisteredAs(local[t], Raw(p), quoted, FirstImageFor(p))

\* Attachment 1, whose key is the string of path 1, was registered first; path
\* 1 and path 2 both have a file named like the path, so the pass tried the
\* key of path 1 again (with the file's pixels) and the key of path 2 twice:
\* path 1 is still bound to the attachment and path 2 once, to its file.
C22_Witness ==
    \E t \in Threads :
        /\ AfterPass(t)
        /\ engRejects = {}
        /\ InSeq(1, attachment_tag_images)
        /\ InSeq(1, tag_image_paths) /\ InSeq(2, tag_image_paths)
        /\ {Raw(1), Raw(2)} \subseteq fs
        /\ tag_image_script_dir = NoDir
        /\ \A quoted \in BOOLEAN :
              {e \in engTags[local[t]] : e.key = Raw(1) /\ e.quoted = quoted}
                  = {[key |-> Raw(1), quoted |-> quoted, img |-> AttachmentImage(1)]}
        /\ \A quoted \in BOOLEAN :
              {e \in engTags[local[t]] : e.key = Raw(2) /\ e.quoted = quoted}
                  = {[key |-> Raw(2), quoted |-> quoted, img |-> FileImage(2, Raw(2))]}

\* ------------------------------------------------- where file images come from
\* Candidates(path, baseDir) as the specification defines it: the raw path,
\* preceded by baseDir joined with the path when the path is not absolute and
\* baseDir is not empty.
Candidates(p, baseDir) ==
    IF path_is_absolute(p) \/ baseDir = NoDir
    THEN <<Raw(p)>>
    ELSE <<Joined(baseDir, p)>> \o <<Raw(p)>>

\* A file is at location loc, with or without pixels.
ExistsAt(loc) == loc \in fs \/ ZeroFile(loc) \in fs

\* loc is the first location of Candidates(p, baseDir) where a file exists,
\* and that file decodes.
FirstCandidate(p, baseDir, loc) ==
    \E i \in DOMAIN Candidates(p, baseDir) :
        /\ Candidates(p, baseDir)[i] = loc
        /\ loc \in fs
        /\ \A j \in 1..(i - 1) : ~ExistsAt(Candidates(p, baseDir)[j])

\* The file images on the engine are memo entries, registered under the
\* referenced path and under the entry's key.
FromMemo(h) ==
    \A e \in engTags[h] :
        e.img.src = "file" =>
            \E p \in Paths : /\ file_tag_image_cache[p] = e.img
                             /\ e.key \in {Raw(p), e.img.key}

\* C23 as stated: every file image of the memo, stored under the referenced
\* path p, has as key the first location of Candidates(p, baseDir) that exists
\* and decodes; no file outside the candidate list is used.
C23_Original ==
    \A p \in Paths :
        file_tag_image_cache[p] # NoImage =>
            FirstCandidate(p, tag_image_script_dir, file_tag_image_cache[p].key)

\* C23, amended: the key of the memo entry of p is the first candidate that
\* exists, which decodes, or, when no candidate exists and there is a script
\* directory, the entry of that directory whose lower-cased name is the
\* lower-cased basename of p; the engine holds file images from the memo only.
C23_Theorem ==
    /\ \A p \in Paths :
          file_tag_image_cache[p] # NoImage =>
            \/ FirstCandidate(p, tag_image_script_dir, file_tag_image_cache[p].key)
            \/ /\ tag_image_script_dir # NoDir
               /\ file_tag_image_cache[p].key = Scanned(tag_image_script_dir, p)
               /\ Scanned(tag_image_script_dir, p) \in fs
               /\ \A i \in DOMAIN Candidates(p, tag_image_script_dir) :
                     ~ExistsAt(Candidates(p, tag_image_script_dir)[i])
    /\ \A t \in Threads : AfterPass(t) => FromMemo(local[t])

\* Path 1 has a file under the script directory and one under its raw name:
\* the pass stored the script-relative one under path 1 and registered it.
C23_Witness ==
    \E t \in Threads :
        /\ AfterPass(t)
        /\ tag_image_script_dir = 1
        /\ {Joined(1, 1), Raw(1)} \subseteq fs
        /\ file_tag_image_cache[1] = FileImage(1, Joined(1, 1))
        /\ \E e \in engTags[local[t]] : e.key = Joined(1, 1) /\ e.img = file_tag_image_cache[1]

\* ------------------------------------------------- the engine's image lists
\* C24: a DrawSubtitles that requested the render hands a non-null RGBA list
\* back to the engine exactly once, after compositing and whichever list was
\* blended, hands back nothing when the RGBA list is null, and never hands
\* back the mask list.
C24_Theorem ==
    \A t \in Threads :
        /\ pc[t] \in {"d_composite", "d_free"} => rr[t].freed = <<>>
        /\ pc[t] = "d_return" =>
              /\ rr[t].used \in {"rgba", "mask"}
              /\ rr[t].freed = IF rr[t].imgs_rgba THEN <<"imgs_rgba">> ELSE <<>>
        /\ \A i \in DOMAIN rr[t].freed : rr[t].freed[i] # "imgs"

\* The engine returned an RGBA list but did not prefer it: the mask list was
\* blended and the RGBA list was released all the same.
C24_Witness ==
    \E t \in Threads :
        /\ pc[t] = "d_return"
        /\ rr[t].imgs_rgba /\ ~rr[t].use_rgba
        /\ rr[t].used = "mask"
        /\ rr[t].freed = <<"imgs_rgba">>

\* ------------------------------------------------------- a cancelled wait
\* renderer() has returned null to the DrawSubtitles of thread t after a wait
\* the user cancelled.
NullAfterCancel(t) ==
    /\ pc[t] \in {"d_check", "l_frame"}
    /\ call[t].canc
    /\ res[t] = NullRenderer

\* The DrawSubtitles of thread t returns having called no engine function,
\* with the dirty flag and the engine's tag images as they were.
DrawGivesUp(t) ==
    /\ pc'[t] = "idle"
    /\ drawLog[t] = <<>>
    /\ drawLog'[t] = <<>>
    /\ UNCHANGED <<tag_images_dirty, engVars, provVars, cacheVars>>

\* C25: a DrawSubtitles whose renderer() returned null after a cancelled wait
\* returns at its next step, without an engine call and without a change of
\* the dirty flag.
C25_Original ==
    [][\A t \in Threads : (NullAfterCancel(t) /\ pc'[t] # pc[t]) => DrawGivesUp(t)]_vars

\* After a cancelled wait renderer() returns what shared->renderer holds at
\* that moment: null as long as the warm-up task has not stored the handle.
CancelledReturn ==
    [][\A t \in Threads :
          (pc[t] = "r_ret" /\ pc'[t] # "r_ret" /\ call[t].canc /\ renderer = NullRenderer)
              => res'[t] = NullRenderer]_vars

\* A draw gave up after a cancelled wait and left the images dirty.
CancelledDraw ==
    \E t \in Threads : NullAfterCancel(t) /\ pc[t] = "d_check" /\ tag_images_dirty

\* ------------------------------------- an attachment named like a file
\* The pairs of a decoded attachment and a referenced path with the
\* attachment's key as path string and a file image in the memo.
Shadowed ==
    {ap \in Attachments \X Paths :
        /\ InSeq(ap[1], attachment_tag_images)
        /\ InSeq(ap[2], tag_image_paths)
        /\ AttKey(ap[1]) = Raw(ap[2])
        /\ file_tag_image_cache[ap[2]] # NoImage}

\* C26: at the end of a pass, a key K that is both the key of a decoded
\* attachment and a referenced path with a file on disk is bound, in both
\* forms, to the attachment's pixels and to nothing else; the file's pixels
\* are on the engine under the resolved file path only, never under K.
C26_Theorem ==
    \A t \in Threads :
        AfterPass(t) =>
            \A ap \in Shadowed :
                /\ \A quoted \in BOOLEAN :
                      RegisteredAs(local[t], Raw(ap[2]), quoted, AttachmentImage(ap[1]))
                /\ \A e \in engTags[local[t]] :
                      /\ e.key = Raw(ap[2]) => e.img = AttachmentImage(ap[1])
                      /\ e.img = file_tag_image_cache[ap[2]] =>
                            /\ e.key = file_tag_image_cache[ap[2]].key
                            /\ e.key # Raw(ap[2])

\* Attachment 1 has the string of path 1 as key and path 1 has a file under
\* the script directory: the key holds the attachment in both forms and the
\* file is registered under the script-relative path, in both forms.
C26_Witness ==
    \E t \in Threads :
        /\ AfterPass(t)
        /\ engRejects = {}
        /\ <<1, 1>> \in Shadowed
        /\ file_tag_image_cache[1].key = Joined(1, 1)
        /\ \A quoted \in BOOLEAN :
              /\ [key |-> Raw(1), quoted |-> quoted, img |-> AttachmentImage(1)]
                    \in engTags[local[t]]
              /\ [key |-> Joined(1, 1), quoted |-> quoted, img |-> file_tag_image_cache[1]]
                    \in engTags[local[t]]

\* ------------------------------------------- what PrepareSubtitles leaves
\* A step of PrepareSubtitles that changes the attachment set or the script
\* directory.
PrepareStep ==
    \/ attachment_tag_images' # attachment_tag_images
    \/ tag_image_script_dir' # tag_image_script_dir

\* The attachment images the engine holds for renderer h.
PushedAttachments(h) == {e \in engTags[h] : e.img.src = "att"}

\* C27 as stated, under RegSpec, where the script was loaded before the first
\* step and neither LoadSubtitles nor Reinitialize of this provider follows:
\* PrepareSubtitles leaves dirty flag, track, path list and renderer handle
\* unchanged, and no draw pushes an attachment of a rebuilt set to the engine.
C27_Original ==
    [][/\ PrepareStep => UNCHANGED <<tag_images_dirty, ass_track, tag_image_paths, renderer>>
       /\ \A h \in RendererIds : PushedAttachments(h)' = {}]_vars

\* C27, amended: PrepareSubtitles leaves dirty flag, track, path list, renderer
\* handle and the engine's images unchanged, and while the dirty flag is clear
\* no step, so no draw after a PrepareSubtitles, changes the flag or what the
\* engine holds; a set rebuilt while the flag is set goes to the engine with
\* the pass that was pending.
C27_Theorem ==
    [][/\ PrepareStep =>
            UNCHANGED <<tag_images_dirty, ass_track, tag_image_paths, renderer, ready, engVars>>
       /\ ~tag_images_dirty => (~tag_images_dirty' /\ UNCHANGED engVars)
       /\ \A t \in Threads :
            PassStep(t) =>
                /\ tag_images_dirty
                /\ PushedAttachments(res[t])' =
                      {e \in engTags'[res[t]] :
                          \E k \in DOMAIN attachment_tag_images :
                              e.img = AttachmentImage(attachment_tag_images[k])}]_vars

\* A pass has run, then PrepareSubtitles rebuilt the attachment set, and the
\* draw now under way has passed RegisterTagImages without a pass: the engine
\* holds none of the attachments.
C27_Witness ==
    \E t \in Threads :
        /\ pc[t] = "d_frame"
        /\ drawLog[t] = <<<<"renderer">>>>
        /\ ~tag_images_dirty
        /\ engPass[local[t]]
        /\ attachment_tag_images = <<2, 1>>
        /\ PushedAttachments(local[t]) = {}

\* ------------------------------------------------------- the dirty flag
\* A LoadSubtitles that the engine accepted.
LoadedStep ==
    /\ pc' = pc
    /\ ass_track' # NullTrack
    /\ tag_image_paths' = ScriptPaths(ass_track')

\* The end of a Reinitialize that replaced the renderer.
ReinitializedStep == \E t \in Threads : pc[t] = "ri_fonts" /\ pc'[t] = "idle"

\* The end of a RegisterTagImages that had a renderer.
RegisteredStep ==
    \E t \in Threads : pc[t] = "g_pass" /\ pc'[t] = "d_frame" /\ res[t] # NullRenderer

\* A step in which the engine is asked to clear or set tag images.
ClearOrSet ==
    \/ \E t \in Threads :
          /\ Len(drawLog'[t]) = Len(drawLog[t]) + 1
          /\ drawLog'[t][Len(drawLog'[t])] = <<"ass_clear_tag_images">>
    \/ \E h \in RendererIds : ~engPass[h] /\ engPass'[h]
    \/ \E h \in RendererIds : engTags'[h] # engTags[h] /\ engTags'[h] # {}

\* C28: the dirty flag is raised only by a successful LoadSubtitles or by a
\* Reinitialize that replaced the renderer, and lowered only at the end of
\* RegisterTagImages; the engine is asked to clear or set tag images only in
\* a pass that finds the flag raised and lowers it, so draws that follow a
\* pass with neither operation in between make no such call.
C28_Theorem ==
    [][/\ (~tag_images_dirty /\ tag_images_dirty') => (LoadedStep \/ ReinitializedStep)
       /\ (tag_images_dirty /\ ~tag_images_dirty') => RegisteredStep
       /\ ClearOrSet => (tag_images_dirty /\ ~tag_images_dirty' /\ RegisteredStep)]_vars

\* A draw that follows a completed pass with neither operation in between is
\* past RegisterTagImages and has made no clear or set call.
C28_Witness ==
    \E t \in Threads :
        /\ pc[t] = "d_storage"
        /\ tagApi
        /\ ~tag_images_dirty
        /\ engPass[local[t]]
        /\ Len(drawLog[t]) = 2
        /\ drawLog[t][1] = <<"renderer">>
        /\ drawLog[t][2][1] = "ass_set_frame_size"

\* ------------------------------------------------- formats in the file memo
\* The keys under which the attachment loop registers.
AttachmentKeys == {AttKey(attachment_tag_images[k]) : k \in DOMAIN attachment_tag_images}

\* C29: every entry of the file memo has the format its path's extension
\* declares; so a pass does not reject a memoized or freshly decoded file
\* image: a referenced path with a file image has that image on the engine
\* under the resolved path (unless an attachment holds that key), and is
\* bound to nothing but that image or the attachment of its own key.
C29_Theorem ==
    /\ \A p \in Paths :
          file_tag_image_cache[p] # NoImage =>
              file_tag_image_cache[p].format = tag_image_format(p)
    /\ \A t \in Threads :
          AfterPass(t) =>
            \A p \in Paths :
              (InSeq(p, tag_image_paths) /\ file_tag_image_cache[p] # NoImage) =>
                /\ file_tag_image_cache[p].key \notin AttachmentKeys =>
                      \A quoted \in BOOLEAN :
                          RegisteredAs(local[t], file_tag_image_cache[p].key, quoted,
                                       file_tag_image_cache[p])
                /\ \A e \in engTags[local[t]] :
                      e.key = Raw(p) =>
                          \/ e.img = file_tag_image_cache[p]
                          \/ e.img.src = "att" /\ e.img.key = Raw(p)

\* The pass just run took the image of the absolute path 2, a .jpg, from the
\* memo, although its file is gone from the disk, and registered it.
C29_Witness ==
    \E t \in Threads :
        /\ AfterPass(t)
        /\ InSeq(2, tag_image_paths)
        /\ 2 \in memoUsed
        /\ file_tag_image_cache[2].format = "ASS_TAG_IMAGE_FORMAT_JPEG"
        /\ file_tag_image_cache[2].key \notin fs
        /\ [key |-> Raw(2), quoted |-> FALSE, img |-> file_tag_image_cache[2]]
              \in engTags[local[t]]

\* ------------------------------------------------- narrowing to eight bits
\* The sum the RGBA branch computes for a source channel s of a pixel of
\* alpha a over the destination channel d, before the narrowing.
ChannelSum(s, a, d) == s + (d * (255 - a)) \div 255

\* Source channel i of src_px goes to destination channel 4 - i of the frame.
\* C30: for a source channel that is at most the pixel's alpha the sum is at
\* most 255 and is the value written; for a source channel above the alpha the
\* value written is the sum modulo 256.
C30_Theorem ==
    callee = "rgba" =>
        \A i \in 1..3 :
            LET sum == ChannelSum(src_px[i], src_px[4], frame_before[4 - i])
            IN  /\ src_px[i] <= src_px[4] => (sum <= 255 /\ frame_px[4 - i] = sum)
                /\ src_px[i] > src_px[4] => frame_px[4 - i] = sum % 256

\* (R=128, G=0, B=0, A=128), premultiplied, over a destination whose red is
\* 255: the red sum is 128 + 127 = 255, the largest value, and is written
\* as it is.
C30_Witness ==
    /\ callee = "rgba"
    /\ src_px = <<128, 0, 0, 128>>
    /\ frame_before[3] = 255
    /\ ChannelSum(src_px[1], src_px[4], frame_before[3]) = 255
    /\ frame_px[3] = 255

\* (R=255, G=0, B=0, A=0), not premultiplied, over a destination whose red is
\* 200: the red sum is 455 and 199 is written.
Wrapped ==
    /\ callee = "rgba"
    /\ src_px = <<255, 0, 0, 0>>
    /\ frame_before[3] = 200
    /\ frame_px[3] = 199
====
